---- MODULE Spec2Model ----
(***************************************************************************)
(* A model of the Dominion engine of mdegostin/dominion: card containers,  *)
(* the supply, the player's turn-scoped state, the three-phase turn of a   *)
(* human player (one action per answer given at a prompt) and the game     *)
(* loop with its end-of-game scoring.                                      *)
(*                                                                         *)
(* Python lists are sequences; a list index i is the sequence index i + 1. *)
(* Exceptions are values: a result record carries err = "none" or the name *)
(* of the exception raised.                                                *)
(***************************************************************************)
EXTENDS Integers, Sequences, FiniteSets, TLC

VARIABLES
    players,         \* Config.players: the list of Player objects
    supply,          \* Config.supply: base_supply and kingdom_supply
    trash,           \* Config.trash
    current_player,  \* Config.current_player, as an index into players (0 = None)
    other_players,   \* Config.other_players, as a list of indices into players
    turn,            \* play_game's local turn
    player_num,      \* play_game's for-loop index (0-based, as in enumerate)
    pc,              \* where the program stands: the prompt it blocks on
    frame,           \* locals of the card effect in progress
    result,          \* what Game() ended with: places of end_game, or the exception
    last,            \* the last step taken: operation, answer, outcome
    pre,             \* the state before the last step (see Snapshot)
    hist             \* history: the players when the last action card was
                     \* played, the cards played since the last cleanup,
                     \* and the cleanups each player has run

vars == <<players, supply, trash, current_player, other_players, turn,
          player_num, pc, frame, result, last, pre, hist>>

(***************************************************************************)
(* Bounds of the model.                                                    *)
(***************************************************************************)
\* the game loop starts at most this many turns
MaxTurnsStarted == 2
\* zones of the draw harness hold at most this many cards
MaxZone == 3
\* the draw harness draws at most this many cards
MaxDraw == 4
\* players of the ranking harness own 0..MaxScore Estates each
MaxScore == 2
MaxEmpty == 4
\* zones of the scoring harness hold at most this many cards
MaxHeld == 2
\* the container harness makes at most this many calls in a row
MaxCalls == 1
\* the turn of the five-card game plays at most this many cards
MaxPlays == 4
\* the five-card game explores the cleanup of at most this many cards
MaxOwned == 5
\* rounds of the game loop completed before the first state of the game model
RoundsPlayed == 40

(***************************************************************************)
(* cards.py: the catalog.  A card is its class name; instances of a class  *)
(* carry identical values.                                                 *)
(***************************************************************************)
TreasureNames == {"Copper", "Silver", "Gold"}
VictoryNames == {"Estate", "Duchy", "Province"}
ActionNames == {"Cellar", "Market", "Merchant", "Militia", "Mine", "Moat",
                "Remodel", "Smithy", "Village", "Workshop", "Festival",
                "Laboratory"}
CardNames == TreasureNames \cup VictoryNames \cup ActionNames

\* Card.cost, set by each card class's constructor
cost(card) ==
    CASE card = "Copper" -> 0
      [] card = "Silver" -> 3
      [] card = "Gold" -> 6
      [] card = "Estate" -> 2
      [] card = "Duchy" -> 5
      [] card = "Province" -> 8
      [] card = "Cellar" -> 2
      [] card = "Market" -> 5
      [] card = "Merchant" -> 3
      [] card = "Militia" -> 4
      [] card = "Mine" -> 5
      [] card = "Moat" -> 2
      [] card = "Remodel" -> 4
      [] card = "Smithy" -> 4
      [] card = "Village" -> 3
      [] card = "Workshop" -> 3
      [] card = "Festival" -> 5
      [] card = "Laboratory" -> 5

\* Treasure.coin
coin(card) ==
    CASE card = "Copper" -> 1
      [] card = "Silver" -> 2
      [] card = "Gold" -> 3

\* getattr(card, "victory", 0)
victory(card) ==
    CASE card = "Estate" -> 1
      [] card = "Duchy" -> 3
      [] card = "Province" -> 6
      [] OTHER -> 0

\* utilities.get_parent_classes(card): the names of the classes of the card's mro
get_parent_classes(card) ==
    {card, "Card", "object"} \cup
    (IF card \in TreasureNames THEN {"Treasure"} ELSE {}) \cup
    (IF card \in VictoryNames THEN {"Victory"} ELSE {}) \cup
    (IF card \in ActionNames THEN {"Action"} ELSE {})

\* Action.effects of each action card: A, B, Ca, C (the fixed grants)
effects(card) ==
    CASE card = "Cellar" -> [A |-> 1, B |-> 0, Ca |-> 0, C |-> 0]
      [] card = "Market" -> [A |-> 1, B |-> 1, Ca |-> 1, C |-> 1]
      [] card = "Merchant" -> [A |-> 1, B |-> 0, Ca |-> 1, C |-> 0]
      [] card = "Militia" -> [A |-> 0, B |-> 0, Ca |-> 0, C |-> 2]
      [] card = "Moat" -> [A |-> 0, B |-> 0, Ca |-> 2, C |-> 0]
      [] card = "Smithy" -> [A |-> 0, B |-> 0, Ca |-> 3, C |-> 0]
      [] card = "Village" -> [A |-> 2, B |-> 0, Ca |-> 1, C |-> 0]
      [] card = "Festival" -> [A |-> 2, B |-> 1, Ca |-> 0, C |-> 2]
      [] card = "Laboratory" -> [A |-> 1, B |-> 0, Ca |-> 2, C |-> 0]
      [] OTHER -> [A |-> 0, B |-> 0, Ca |-> 0, C |-> 0]

(***************************************************************************)
(* Helpers on sequences (Python list operations).                          *)
(***************************************************************************)
\* [x] * n
Repeat(x, n) == [i \in 1..n |-> x]

\* list.pop(i) of a 0-based index i that is in range: the list without it
DropAt(s, i) == [k \in 1..(Len(s) - 1) |-> IF k <= i THEN s[k] ELSE s[k + 1]]

\* the number of places of s that hold x
RECURSIVE CountOf(_, _)
CountOf(s, x) ==
    IF s = <<>> THEN 0
    ELSE (IF Head(s) = x THEN 1 ELSE 0) + CountOf(Tail(s), x)

\* sum(f(x) for x in s), for the operators used below
RECURSIVE SumCoin(_)
SumCoin(s) ==
    IF s = <<>> THEN 0
    ELSE (IF "Treasure" \in get_parent_classes(Head(s)) THEN coin(Head(s)) ELSE 0)
         + SumCoin(Tail(s))

RECURSIVE SumVictory(_)
SumVictory(s) ==
    IF s = <<>> THEN 0 ELSE victory(Head(s)) + SumVictory(Tail(s))

\* sorted(ids, reverse=True), by insertion
RECURSIVE InsertDesc(_, _)
InsertDesc(x, s) ==
    IF s = <<>> THEN <<x>>
    ELSE IF x >= Head(s) THEN <<x>> \o s
    ELSE <<Head(s)>> \o InsertDesc(x, Tail(s))

\* sorted(ids), ascending
RECURSIVE InsertAsc(_, _)
InsertAsc(x, s) ==
    IF s = <<>> THEN <<x>>
    ELSE IF x <= Head(s) THEN <<x>> \o s
    ELSE <<Head(s)>> \o InsertAsc(x, Tail(s))

RECURSIVE sorted_ascending(_)
sorted_ascending(ids) ==
    IF ids = <<>> THEN <<>> ELSE InsertAsc(Head(ids), sorted_ascending(Tail(ids)))

RECURSIVE SortedReverse(_)
SortedReverse(ids) ==
    IF ids = <<>> THEN <<>> ELSE InsertDesc(Head(ids), SortedReverse(Tail(ids)))

\* random.shuffle(list): every arrangement of the list (equal cards being
\* interchangeable, an arrangement is counted once)
RECURSIVE Shuffles(_)
Shuffles(s) ==
    IF s = <<>> THEN {<<>>}
    ELSE UNION {
           LET k == CHOOSE i \in 1..Len(s) : s[i] = x
           IN {<<x>> \o t : t \in Shuffles(DropAt(s, k - 1))}
           : x \in {s[i] : i \in 1..Len(s)}}

(***************************************************************************)
(* containers.py: CardContainer.                                           *)
(***************************************************************************)
\* CardContainer.set_identifiers
set_identifiers(z) ==
    [z EXCEPT !.identifiers = [k \in 1..Len(z.cards) |-> (k - 1) + z.id_start]]

\* CardContainer.count_cards
count_cards(z) == [z EXCEPT !.num_cards = Len(z.cards)]

\* CardContainer.__init__(card_list, id_start)
CardContainer(card_list, id_start) ==
    set_identifiers([cards |-> card_list, num_cards |-> Len(card_list),
                     id_start |-> id_start, identifiers |-> <<>>])

\* CardDeck.__init__(card_type, num_cards)
CardDeck(card_type, num_cards) == CardContainer(Repeat(card_type, num_cards), 0)

\* an add_cards that takes the first card only
add_cards_first(z, cards) ==
    count_cards(set_identifiers(
        [z EXCEPT !.cards = @ \o (IF cards = <<>> THEN <<>> ELSE <<Head(cards)>>)]))

\* CardContainer.add_cards
add_cards(z, cards) == count_cards(set_identifiers([z EXCEPT !.cards = @ \o cards]))

\* the for loop of remove_cards: pop the (descending) indices one by one;
\* list.pop raises IndexError out of range and counts a negative index from
\* the end
RECURSIVE PopLoop(_, _, _, _)
PopLoop(cards, id_start, idxs, removed) ==
    IF idxs = <<>> THEN [err |-> "none", cards |-> cards, removed |-> removed]
    ELSE LET raw == Head(idxs) - id_start
             i == IF raw < 0 THEN raw + Len(cards) ELSE raw
         IN IF i < 0 \/ i >= Len(cards)
            THEN [err |-> "IndexError", cards |-> cards, removed |-> removed]
            ELSE PopLoop(DropAt(cards, i), id_start, Tail(idxs),
                         Append(removed, cards[i + 1]))

\* the end of remove_cards, r being what the for loop left: set_identifiers
\* and count_cards are reached only if no pop raised
removed_from(z, r) ==
    IF r.err # "none"
    THEN [err |-> r.err, zone |-> [z EXCEPT !.cards = r.cards], removed |-> r.removed]
    ELSE [err |-> "none",
          zone |-> count_cards(set_identifiers([z EXCEPT !.cards = r.cards])),
          removed |-> r.removed]

\* CardContainer.remove_cards: [err, zone, removed]
remove_cards(z, identifiers) ==
    IF Len(identifiers) > Len(z.cards)
    THEN [err |-> "DominionError", zone |-> z, removed |-> <<>>]
    ELSE removed_from(z, PopLoop(z.cards, z.id_start, SortedReverse(identifiers), <<>>))

\* CardContainer.shuffle: the containers it can leave
shuffle(z) == {set_identifiers([z EXCEPT !.cards = s]) : s \in Shuffles(z.cards)}

(***************************************************************************)
(* utilities.py: transfer.                                                 *)
(***************************************************************************)
\* target.add_cards(cards), r being what source.remove_cards returned
added_to(target, r) ==
    IF r.err # "none"
    THEN [err |-> r.err, source |-> r.zone, target |-> target]
    ELSE [err |-> "none", source |-> r.zone, target |-> add_cards(target, r.removed)]

\* transfer(source, target, identifiers): [err, source, target]
transfer(source, target, identifiers) ==
    added_to(target, remove_cards(source, identifiers))

\* transfer(source, target): identifiers=None takes source.identifiers
transfer_all(source, target) == transfer(source, target, source.identifiers)

(***************************************************************************)
(* players.py: Player.                                                     *)
(***************************************************************************)
\* a reset that leaves the buys as they are
reset_points_keeps_buys(p) == [p EXCEPT !.actions = 1, !.turn_coins = 0]

\* Player.reset_points
reset_points(p) == [p EXCEPT !.actions = 1, !.buys = 1, !.turn_coins = 0]

\* Player.increment_actions
increment_actions(p, increment) == [p EXCEPT !.actions = @ + increment]

\* Player.increment_buys
increment_buys(p, increment) == [p EXCEPT !.buys = @ + increment]

\* Player.increment_coins
increment_coins(p, increment) == [p EXCEPT !.turn_coins = @ + increment]

\* Player.count_coins
count_coins(p) == [p EXCEPT !.hand_coins = SumCoin(p.hand.cards)]

\* a set_coins that adds to the coins stored
set_coins_adds(p) ==
    LET q == count_coins(p) IN [q EXCEPT !.coins = @ + q.turn_coins + q.hand_coins]

\* Player.set_coins
set_coins(p) ==
    LET q == count_coins(p) IN [q EXCEPT !.coins = q.turn_coins + q.hand_coins]

\* the body of draw's for loop, num_cards times: the outcomes [err, player],
\* one for every way the shuffles can fall
RECURSIVE DrawLoop(_, _)
DrawLoop(p, k) ==
    IF k = 0 THEN {[err |-> "none", player |-> p]}
    ELSE LET t == transfer(p.deck, p.hand, <<0>>)
         IN IF t.err = "none"
            THEN DrawLoop([p EXCEPT !.deck = t.source, !.hand = t.target], k - 1)
            ELSE IF t.err # "DominionError"
            THEN {[err |-> t.err, player |-> p]}
            ELSE LET r == transfer_all(p.discard_pile, p.deck)
                 IN UNION {
                      LET u == transfer(d, p.hand, <<0>>)
                          q == [p EXCEPT !.discard_pile = r.source,
                                         !.deck = u.source, !.hand = u.target]
                      IN IF u.err = "none" THEN DrawLoop(q, k - 1)
                         ELSE {[err |-> u.err, player |-> q]}
                      : d \in shuffle(r.target)}

\* a draw without the check of the cards available
draw_unchecked(p, num_cards) == DrawLoop(p, num_cards)

\* a draw that needs one card more than it takes
draw_needs_spare(p, num_cards) ==
    IF num_cards >= p.deck.num_cards + p.discard_pile.num_cards
    THEN {[err |-> "DominionError", player |-> p]}
    ELSE DrawLoop(p, num_cards)

\* Player.draw(num_cards): the outcomes [err, player]
draw(p, num_cards) ==
    IF num_cards > p.deck.num_cards + p.discard_pile.num_cards
    THEN {[err |-> "DominionError", player |-> p]}
    ELSE DrawLoop(p, num_cards)

\* Player.draw_hand
draw_hand(p) == draw(p, 5)

\* a cleanup that leaves the counters of the turn as they are
cleanup_no_reset(p) ==
    LET t1 == transfer_all(p.play_mat, p.discard_pile)
        t2 == transfer_all(p.hand, t1.target)
        q == [p EXCEPT !.play_mat = t1.source, !.hand = t2.source,
                       !.discard_pile = t2.target]
    IN {IF r.err = "none"
        THEN [err |-> "none", player |-> set_coins(r.player)]
        ELSE r
        : r \in draw_hand(q)}

\* a cleanup whose reset leaves the buys as they are
cleanup_keeps_buys(p) ==
    LET t1 == transfer_all(p.play_mat, p.discard_pile)
        t2 == transfer_all(p.hand, t1.target)
        q == [p EXCEPT !.play_mat = t1.source, !.hand = t2.source,
                       !.discard_pile = t2.target]
    IN {IF r.err = "none"
        THEN [err |-> "none", player |-> set_coins(reset_points_keeps_buys(r.player))]
        ELSE r
        : r \in draw_hand(q)}

\* Player.cleanup: the outcomes [err, player]
cleanup(p) ==
    LET t1 == transfer_all(p.play_mat, p.discard_pile)
        t2 == transfer_all(p.hand, t1.target)
        q == [p EXCEPT !.play_mat = t1.source, !.hand = t2.source,
                       !.discard_pile = t2.target]
    IN {IF r.err = "none"
        THEN [err |-> "none", player |-> set_coins(reset_points(r.player))]
        ELSE r
        : r \in draw_hand(q)}

\* an end_game that leaves the hand where it is
player_end_game_keeps_hand(p) ==
    LET t1 == transfer_all(p.play_mat, p.discard_pile)
        t3 == transfer_all(t1.target, p.deck)
    IN [p EXCEPT !.play_mat = t1.source,
                 !.discard_pile = t3.source, !.deck = t3.target,
                 !.victory_points = @ + SumVictory(t3.target.cards)]

\* Player.end_game: the player with all cards in the deck and the points counted
player_end_game(p) ==
    LET t1 == transfer_all(p.play_mat, p.discard_pile)
        t2 == transfer_all(p.hand, t1.target)
        t3 == transfer_all(t2.target, p.deck)
    IN [p EXCEPT !.play_mat = t1.source, !.hand = t2.source,
                 !.discard_pile = t3.source, !.deck = t3.target,
                 !.victory_points = @ + SumVictory(t3.target.cards)]

\* a Player object with the given zones and counters
PlayerObject(deck, hand, discard_pile, play_mat, turns) ==
    [deck |-> CardContainer(deck, 0), hand |-> CardContainer(hand, 0),
     discard_pile |-> CardContainer(discard_pile, 0),
     play_mat |-> CardContainer(play_mat, 0),
     turns |-> turns, actions |-> 0, buys |-> 0, turn_coins |-> 0,
     hand_coins |-> 0, coins |-> 0, victory_points |-> 0]

\* Player.__init__: the players it can construct (one per shuffle of the deck)
NewPlayers ==
    UNION {
      {set_coins(reset_points(r.player))
       : r \in draw_hand(PlayerObject(d, <<>>, <<>>, <<>>, 0))}
      : d \in Shuffles(CardDeck("Copper", 7).cards \o CardDeck("Estate", 3).cards)}

(***************************************************************************)
(* containers.py: Base, Kingdom, Supply.                                   *)
(***************************************************************************)
\* a base supply that does not depend on the number of players
base_for_two(num_players) ==
    [decks |-> <<CardDeck("Copper", 46), CardDeck("Silver", 40), CardDeck("Gold", 30),
                 CardDeck("Estate", 8), CardDeck("Duchy", 8), CardDeck("Province", 8)>>,
     identifiers |-> <<0, 1, 2, 3, 4, 5>>,
     decks_ref |-> <<"Copper", "Silver", "Gold", "Estate", "Duchy", "Province">>]

\* Base.__init__
Base(num_players) ==
    LET num_victory == IF num_players > 2 THEN 12 ELSE 8
        decks == <<CardDeck("Copper", 60 - num_players * 7),
                   CardDeck("Silver", 40), CardDeck("Gold", 30),
                   CardDeck("Estate", num_victory), CardDeck("Duchy", num_victory),
                   CardDeck("Province", num_victory)>>
    IN [decks |-> decks,
        identifiers |-> [i \in 1..Len(decks) |-> i - 1],
        decks_ref |-> [i \in 1..Len(decks) |-> decks[i].cards[1]]]

\* Kingdom.first_game: the card types of its decks
first_game ==
    <<"Cellar", "Market", "Merchant", "Militia", "Mine", "Moat", "Remodel",
      "Smithy", "Village", "Workshop">>

\* Kingdom.solo: the card types of its decks
solo ==
    <<"Cellar", "Market", "Merchant", "Mine", "Remodel", "Smithy", "Village",
      "Workshop", "Festival", "Laboratory">>

\* Kingdom.__init__ as Supply calls it (kingdom='first_game')
Kingdom(num_players, id_start) ==
    LET types == IF num_players = 1 THEN solo ELSE first_game
        decks == [i \in 1..Len(types) |-> CardDeck(types[i], 10)]
    IN [decks |-> decks, id_start |-> id_start,
        identifiers |-> [i \in 1..Len(decks) |-> (i - 1) + id_start],
        decks_ref |-> [i \in 1..Len(decks) |-> decks[i].cards[1]]]

\* Supply.__init__
Supply(num_players) ==
    LET base == Base(num_players)
    IN [base_supply |-> base,
        kingdom_supply |-> Kingdom(num_players, Len(base.decks))]

\* the loop of check_end_game over base_supply.decks + kingdom_supply.decks
RECURSIVE CountEmpty(_)
CountEmpty(decks) ==
    IF decks = <<>> THEN 0
    ELSE (IF Head(decks).num_cards = 0 THEN 1 ELSE 0) + CountEmpty(Tail(decks))

\* a check that waits for a fourth empty pile
check_end_game_four(s) ==
    LET num_empty_piles == CountEmpty(s.base_supply.decks \o s.kingdom_supply.decks)
        num_province == s.base_supply.decks[6].num_cards
    IN IF num_empty_piles > 3 THEN TRUE
       ELSE IF num_province = 0 THEN TRUE
       ELSE FALSE

\* a check that does not look at the Province pile
check_end_game_piles(s) ==
    LET num_empty_piles == CountEmpty(s.base_supply.decks \o s.kingdom_supply.decks)
    IN IF num_empty_piles > 2 THEN TRUE
       ELSE FALSE

\* Supply.check_end_game
check_end_game(s) ==
    LET num_empty_piles == CountEmpty(s.base_supply.decks \o s.kingdom_supply.decks)
        num_province == s.base_supply.decks[6].num_cards
    IN IF num_empty_piles > 2 THEN TRUE
       ELSE IF num_province = 0 THEN TRUE
       ELSE FALSE

(***************************************************************************)
(* dominion.py: Config.set_current_player, and the control flow of a turn. *)
(* A configuration is what a step leaves behind: the players, the supply,  *)
(* the trash, the prompt the program blocks on next (pc), the locals of    *)
(* the card effect in progress (frame), the message printed (out) and the  *)
(* exception that left play_game, if any (status).                         *)
(***************************************************************************)
\* a set_current_player that lists the other players from the one after the
\* current player round to the one before
set_current_player_rotated(ps, index) ==
    [current_player |-> index + 1,
     other_players |-> [k \in 1..(Len(ps) - 1) |-> ((index + k) % Len(ps)) + 1]]

\* Config.set_current_player(index): [current_player, other_players], as
\* indices into players
set_current_player(ps, index) ==
    [current_player |-> index + 1,
     other_players |-> [k \in 1..(Len(ps) - 1) |-> IF k <= index THEN k ELSE k + 1]]

\* the locals of a card effect that waits at a prompt
Frame(card, num_discards, victim, card_type, max_cost, destination) ==
    [card |-> card, num_discards |-> num_discards, victim |-> victim,
     card_type |-> card_type, max_cost |-> max_cost, destination |-> destination]

NoFrame == Frame("", 0, 0, "None", 0, "")

Cfg(ps, sup, tr, pcv, fr, out, status) ==
    [players |-> ps, supply |-> sup, trash |-> tr, pc |-> pcv, frame |-> fr,
     out |-> out, status |-> status]

\* a quit that leaves the loop as the end of the game does
quit_breaks_loop(ps, sup, tr) ==
    Cfg(ps, sup, tr, "scoring", NoFrame, "Game quit", "running")

\* a DominionQuitError reaches play_game, which prints and returns
Quit(ps, sup, tr) == Cfg(ps, sup, tr, "done", NoFrame, "Game quit", "DominionQuitError")

\* a DominionError reaches play_game, whose handler evaluates
\* "Encountered an error while playing. " + e and so raises TypeError
Crash(ps, sup, tr) == Cfg(ps, sup, tr, "done", NoFrame, "", "TypeError")

\* Human.buy_phase up to its first prompt
buy_phase(ps, cp, sup, tr, out) ==
    IF ps[cp].buys > 0
    THEN Cfg([ps EXCEPT ![cp] = set_coins(set_coins(@))], sup, tr, "buy", NoFrame,
             out, "running")
    ELSE Cfg(ps, sup, tr, "cleanup", NoFrame, out, "running")

\* a buy that does not compute the coins before its prompt
buy_loop_stale(ps, cp, sup, tr, out) ==
    IF ps[cp].buys > 0
    THEN Cfg(ps, sup, tr, "buy", NoFrame, out, "running")
    ELSE Cfg(ps, sup, tr, "cleanup", NoFrame, out, "running")

\* a buy phase that ends the turn without the cleanup
buy_loop_no_cleanup(ps, cp, sup, tr, out) ==
    IF ps[cp].buys > 0
    THEN Cfg([ps EXCEPT ![cp] = set_coins(@)], sup, tr, "buy", NoFrame, out, "running")
    ELSE Cfg(ps, sup, tr, "loop", NoFrame, out, "running")

\* the while loop of Human.buy_phase after a buy returned
buy_loop(ps, cp, sup, tr, out) ==
    IF ps[cp].buys > 0
    THEN Cfg([ps EXCEPT ![cp] = set_coins(@)], sup, tr, "buy", NoFrame, out, "running")
    ELSE Cfg(ps, sup, tr, "cleanup", NoFrame, out, "running")

\* the while loop of Human.action_phase: the next call of action, or the buy phase
action_loop(ps, cp, sup, tr, out) ==
    IF ps[cp].actions > 0
    THEN Cfg([ps EXCEPT ![cp] = set_coins(@)], sup, tr, "action", NoFrame, out,
             "running")
    ELSE buy_phase(ps, cp, sup, tr, out)

\* Human.action_phase up to its first prompt
action_phase(ps, cp, sup, tr, out) ==
    IF ps[cp].actions > 0
    THEN action_loop([ps EXCEPT ![cp] = set_coins(@)], cp, sup, tr, out)
    ELSE buy_phase(ps, cp, sup, tr, out)

\* a handler that goes on with the loop
action_pass_goes_on(ps, cp, sup, tr, out) ==
    IF ps[cp].actions > 0
    THEN Cfg(ps, sup, tr, "action", NoFrame, out, "running")
    ELSE Cfg(ps, sup, tr, "cleanup", NoFrame, out, "running")

\* Human.action_phase's handler of DominionPassError
action_pass(ps, cp, sup, tr, out) ==
    buy_phase([ps EXCEPT ![cp].actions = 0], cp, sup, tr, out)

\* Human.buy_phase's handler of DominionPassError
buy_pass(ps, cp, sup, tr, out) ==
    Cfg([ps EXCEPT ![cp].buys = 0], sup, tr, "cleanup", NoFrame, out, "running")

\* Human.action after the card's action method returned: the played card
\* leaves the play mat for the discard pile, and the loop goes on
finish_play(ps, cp, sup, tr, out) ==
    LET t == transfer(ps[cp].play_mat, ps[cp].discard_pile, <<-1>>)
        qs == [ps EXCEPT ![cp].play_mat = t.source, ![cp].discard_pile = t.target]
    IN action_loop(qs, cp, sup, tr, out)

(***************************************************************************)
(* cards.py: the action methods.                                           *)
(***************************************************************************)
\* Market.action: the outcomes [err, player]
Market_action(p) ==
    {IF r.err = "none"
     THEN [err |-> "none",
           player |-> increment_coins(increment_buys(increment_actions(r.player, 1), 1), 1)]
     ELSE r : r \in draw(p, 1)}

\* Merchant.action
Merchant_action(p) ==
    {IF r.err = "none"
     THEN LET q == increment_actions(r.player, 1)
              has_silver == \E k \in 1..Len(q.hand.cards) : q.hand.cards[k] = "Silver"
          IN [err |-> "none",
              player |-> IF has_silver THEN increment_coins(q, 1) ELSE q]
     ELSE r : r \in draw(p, 1)}

\* Moat.action
Moat_action(p) == draw(p, 2)

\* Smithy.action
Smithy_action(p) == draw(p, 3)

\* Village.action
Village_action(p) ==
    {IF r.err = "none"
     THEN [err |-> "none", player |-> increment_actions(r.player, 2)]
     ELSE r : r \in draw(p, 1)}

\* Festival.action
Festival_action(p) ==
    {[err |-> "none",
      player |-> increment_coins(increment_buys(increment_actions(p, 2), 1), 2)]}

\* Laboratory.action
Laboratory_action(p) ==
    {IF r.err = "none"
     THEN [err |-> "none", player |-> increment_actions(r.player, 1)]
     ELSE r : r \in draw(p, 2)}

\* the action methods that ask nothing
NoPromptCards == {"Market", "Merchant", "Moat", "Smithy", "Village", "Festival",
                  "Laboratory"}

no_prompt_action(card, p) ==
    CASE card = "Market" -> Market_action(p)
      [] card = "Merchant" -> Merchant_action(p)
      [] card = "Moat" -> Moat_action(p)
      [] card = "Smithy" -> Smithy_action(p)
      [] card = "Village" -> Village_action(p)
      [] card = "Festival" -> Festival_action(p)
      [] card = "Laboratory" -> Laboratory_action(p)

\* a for loop of Militia.action that does not look for a Moat
RECURSIVE militia_next_no_moat(_, _, _)
militia_next_no_moat(ps, others, k) ==
    IF k > Len(others) THEN 0
    ELSE IF Len(ps[others[k]].hand.cards) > 3 THEN k
    ELSE militia_next_no_moat(ps, others, k + 1)

\* Militia.action's for loop from the k-th other player on: the position of
\* the first one who has no Moat in hand and more than 3 cards, or 0
RECURSIVE militia_next(_, _, _)
militia_next(ps, others, k) ==
    IF k > Len(others) THEN 0
    ELSE LET player_cards == ps[others[k]].hand.cards
         IN IF \E i \in 1..Len(player_cards) : player_cards[i] = "Moat"
            THEN militia_next(ps, others, k + 1)
            ELSE IF Len(player_cards) > 3 THEN k
            ELSE militia_next(ps, others, k + 1)

\* Militia.action from the k-th other player on, up to its next prompt
Militia_loop(ps, cp, others, sup, tr, k, out) ==
    LET v == militia_next(ps, others, k)
    IN IF v = 0 THEN finish_play(ps, cp, sup, tr, out)
       ELSE Cfg(ps, sup, tr, "discard", Frame("Militia", 0, v, "None", 0, ""),
                out, "running")

\* a Militia whose coins go to every player
Militia_action_coins_to_all(ps, cp, others, sup, tr, out) ==
    Militia_loop([i \in 1..Len(ps) |-> increment_coins(ps[i], 2)], cp, others, sup, tr,
                 1, out)

\* Militia.action up to its first prompt
Militia_action(ps, cp, others, sup, tr, out) ==
    Militia_loop([ps EXCEPT ![cp] = increment_coins(@, 2)], cp, others, sup, tr, 1, out)

\* a Cellar that draws one card more than were discarded
Cellar_draw_one_more(ps, cp, sup, tr, num_discards, out) ==
    {IF r.err = "none"
     THEN finish_play([ps EXCEPT ![cp] = r.player], cp, sup, tr, out)
     ELSE Crash([ps EXCEPT ![cp] = r.player], sup, tr)
     : r \in draw(ps[cp], num_discards + 1)}

\* Cellar.action after its while loop (the player passed at the discard
\* prompt, or the hand is empty): the draw of num_discards cards
Cellar_draw(ps, cp, sup, tr, num_discards, out) ==
    {IF r.err = "none"
     THEN finish_play([ps EXCEPT ![cp] = r.player], cp, sup, tr, out)
     ELSE Crash([ps EXCEPT ![cp] = r.player], sup, tr)
     : r \in draw(ps[cp], num_discards)}

\* Cellar.action's while loop and final draw, up to its next prompt
Cellar_loop(ps, cp, sup, tr, num_discards, out) ==
    IF ps[cp].hand.num_cards > 0
    THEN {Cfg(ps, sup, tr, "discard", Frame("Cellar", num_discards, 0, "None", 0, ""),
              out, "running")}
    ELSE Cellar_draw(ps, cp, sup, tr, num_discards, out)

\* Cellar.action up to its first prompt
Cellar_action(ps, cp, sup, tr, out) ==
    Cellar_loop([ps EXCEPT ![cp] = increment_actions(@, 1)], cp, sup, tr, 0, out)

\* a Mine that lets the player trash any card
Mine_action_any_card(ps, sup, tr, out) ==
    Cfg(ps, sup, tr, "trash", Frame("Mine", 0, 0, "None", 0, ""), out, "running")

\* Mine.action up to its first prompt (Human.trash, card_type="Treasure")
Mine_action(ps, sup, tr, out) ==
    Cfg(ps, sup, tr, "trash", Frame("Mine", 0, 0, "Treasure", 0, ""), out, "running")

\* Remodel.action up to its first prompt (Human.trash, card_type=None)
Remodel_action(ps, sup, tr, out) ==
    Cfg(ps, sup, tr, "trash", Frame("Remodel", 0, 0, "None", 0, ""), out, "running")

\* Workshop.action up to its prompt (Human.free_buy, max_cost 4)
Workshop_action(ps, sup, tr, out) ==
    Cfg(ps, sup, tr, "gain", Frame("Workshop", 0, 0, "None", 4, "discard"), out,
        "running")

(***************************************************************************)
(* players.py: Human.  An answer is what input() returns at a prompt:      *)
(* kind "pass", "quit", "help", "text" (not an integer) or "id" with the   *)
(* integer typed.                                                          *)
(***************************************************************************)
\* x in list
InList(x, list) == \E k \in 1..Len(list) : list[k] = x

\* the same prompt again, after the message out
Reprompt(ps, sup, tr, pcv, fr, out) == Cfg(ps, sup, tr, pcv, fr, out, "running")

\* a play that costs no action
use_no_action(p) == p

\* self.actions -= 1 of Human.action
use_action(p) == [p EXCEPT !.actions = @ - 1]

\* Human.action from `self.actions -= 1` on, for a valid identifier of an
\* action card: the configurations at the next prompt
play(ps, cp, others, sup, tr, id) ==
    LET t == transfer(ps[cp].hand, ps[cp].play_mat, <<id>>)
        qs == [ps EXCEPT ![cp] = [use_action(@) EXCEPT !.hand = t.source,
                                                       !.play_mat = t.target]]
        card == t.target.cards[Len(t.target.cards)]
    IN CASE card \in NoPromptCards ->
              {IF r.err = "none"
               THEN finish_play([qs EXCEPT ![cp] = r.player], cp, sup, tr, "played")
               ELSE Crash([qs EXCEPT ![cp] = r.player], sup, tr)
               : r \in no_prompt_action(card, qs[cp])}
         [] card = "Cellar" -> Cellar_action(qs, cp, sup, tr, "played")
         [] card = "Militia" -> {Militia_action(qs, cp, others, sup, tr, "played")}
         [] card = "Mine" -> {Mine_action(qs, sup, tr, "played")}
         [] card = "Remodel" -> {Remodel_action(qs, sup, tr, "played")}
         [] card = "Workshop" -> {Workshop_action(qs, sup, tr, "played")}

\* Human.action at its prompt
action_answer(ps, cp, others, sup, tr, a) ==
    CASE a.kind = "pass" -> {action_pass(ps, cp, sup, tr, "pass")}
      [] a.kind = "quit" -> {Quit(ps, sup, tr)}
      [] a.kind = "help" -> {Reprompt(ps, sup, tr, "action", NoFrame, "help")}
      [] a.kind = "text" ->
           {Reprompt(ps, sup, tr, "action", NoFrame,
                     "Invalid card identifier. Specify an integer.")}
      [] a.kind = "id" ->
           IF InList(a.id, ps[cp].hand.identifiers)
           THEN IF "Action" \notin get_parent_classes(ps[cp].hand.cards[a.id + 1])
                THEN {Reprompt(ps, sup, tr, "action", NoFrame, "Not an action card.")}
                ELSE play(ps, cp, others, sup, tr, a.id)
           ELSE {Reprompt(ps, sup, tr, "action", NoFrame, "Invalid card identifier.")}

\* a while loop that a pass leaves for the next player attacked
Militia_while_pass_through(ps, cp, others, sup, tr, v, out) ==
    IF out # "pass" /\ Len(ps[others[v]].hand.cards) > 3
    THEN Cfg(ps, sup, tr, "discard", Frame("Militia", 0, v, "None", 0, ""), out,
             "running")
    ELSE Militia_loop(ps, cp, others, sup, tr, v + 1, out)

\* Militia.action's while loop for the v-th other player, then the for loop
Militia_while(ps, cp, others, sup, tr, v, out) ==
    IF Len(ps[others[v]].hand.cards) > 3
    THEN Cfg(ps, sup, tr, "discard", Frame("Militia", 0, v, "None", 0, ""), out,
             "running")
    ELSE Militia_loop(ps, cp, others, sup, tr, v + 1, out)

\* Human.discard at its prompt, called by Cellar (the current player) or by
\* Militia (an attacked player)
discard_answer(ps, cp, others, sup, tr, fr, a) ==
    LET who == IF fr.card = "Militia" THEN others[fr.victim] ELSE cp
    IN CASE a.kind = "pass" ->
              IF fr.card = "Militia"
              THEN {Militia_while(ps, cp, others, sup, tr, fr.victim, "pass")}
              ELSE Cellar_draw(ps, cp, sup, tr, fr.num_discards, "pass")
         [] a.kind = "quit" -> {Quit(ps, sup, tr)}
         [] a.kind = "help" -> {Reprompt(ps, sup, tr, "discard", fr, "help")}
         [] a.kind = "text" ->
              {Reprompt(ps, sup, tr, "discard", fr,
                        "Invalid card identifier. Specify an integer.")}
         [] a.kind = "id" ->
              IF InList(a.id, ps[who].hand.identifiers)
              THEN LET t == transfer(ps[who].hand, ps[who].discard_pile, <<a.id>>)
                       qs == [ps EXCEPT ![who].hand = t.source,
                                        ![who].discard_pile = t.target]
                   IN IF fr.card = "Militia"
                      THEN {Militia_while(qs, cp, others, sup, tr, fr.victim, "discards")}
                      ELSE Cellar_loop(qs, cp, sup, tr, fr.num_discards + 1, "discards")
              ELSE {Reprompt(ps, sup, tr, "discard", fr, "Invalid card identifier.")}

\* Human.trash at its prompt, called by Mine (card_type "Treasure") or by
\* Remodel (card_type None); a trashed card leads to the caller's free_buy
trash_answer(ps, cp, sup, tr, fr, a) ==
    CASE a.kind = "pass" -> {finish_play(ps, cp, sup, tr, "pass")}
      [] a.kind = "quit" -> {Quit(ps, sup, tr)}
      [] a.kind = "help" -> {Reprompt(ps, sup, tr, "trash", fr, "help")}
      [] a.kind = "text" ->
           {Reprompt(ps, sup, tr, "trash", fr,
                     "Invalid card identifier. Specify an integer.")}
      [] a.kind = "id" ->
           IF InList(a.id, ps[cp].hand.identifiers)
           THEN IF fr.card_type = "None"
                   \/ fr.card_type \in get_parent_classes(ps[cp].hand.cards[a.id + 1])
                THEN LET card_cost == cost(ps[cp].hand.cards[a.id + 1])
                         t == transfer(ps[cp].hand, tr, <<a.id>>)
                         qs == [ps EXCEPT ![cp].hand = t.source]
                     IN {Cfg(qs, sup, t.target, "gain",
                             IF fr.card = "Mine"
                             THEN Frame("Mine", 0, 0, "Treasure", card_cost + 3, "hand")
                             ELSE Frame("Remodel", 0, 0, "None", card_cost + 2, "discard"),
                             "trashes", "running")}
                ELSE {Reprompt(ps, sup, tr, "trash", fr, "Cannot trash that type of card.")}
           ELSE {Reprompt(ps, sup, tr, "trash", fr, "Invalid card identifier.")}

\* the supply with one deck replaced
with_base_deck(sup, k, deck) == [sup EXCEPT !.base_supply.decks[k] = deck]
with_kingdom_deck(sup, k, deck) == [sup EXCEPT !.kingdom_supply.decks[k] = deck]

\* a purchase that puts the card in the hand
buy_from_to_hand(p, deck) ==
    LET t == transfer(deck, p.hand, <<0>>)
    IN [player |-> [p EXCEPT !.turn_coins = @ - cost(deck.cards[1]),
                             !.buys = @ - 1,
                             !.hand = t.target],
        deck |-> t.source]

\* a purchase whose transfer runs from the discard pile to the pile
buy_from_reversed(p, deck) ==
    LET t == transfer(p.discard_pile, deck, <<0>>)
    IN [player |-> [p EXCEPT !.turn_coins = @ - cost(deck.cards[1]),
                             !.buys = @ - 1,
                             !.discard_pile = t.source],
        deck |-> t.target]

\* the purchase of Human.buy from deck: turn_coins, buys, and the transfer
\* to the discard pile; [player, deck]
buy_from(p, deck) ==
    LET t == transfer(deck, p.discard_pile, <<0>>)
    IN [player |-> [p EXCEPT !.turn_coins = @ - cost(deck.cards[1]),
                             !.buys = @ - 1,
                             !.discard_pile = t.target],
        deck |-> t.source]

\* checks that do not compare the cost with the coins
buy_check_any_cost(deck, coins) ==
    IF deck.num_cards < 1 THEN "Cannot buy, not enough inventory." ELSE "buys"

\* the checks of Human.buy on the deck chosen, for a player with the given
\* coins: the message of the failed check, or "buys"
buy_check(deck, coins) ==
    IF deck.num_cards < 1 THEN "Cannot buy, not enough inventory."
    ELSE IF cost(deck.cards[1]) > coins THEN "Cannot buy, not enough coin."
    ELSE "buys"

\* Human.buy for an identifier of the base supply
buy_base(ps, cp, sup, tr, id) ==
    IF buy_check(sup.base_supply.decks[id + 1], ps[cp].coins) # "buys"
    THEN Reprompt(ps, sup, tr, "buy", NoFrame,
                  buy_check(sup.base_supply.decks[id + 1], ps[cp].coins))
    ELSE buy_loop([ps EXCEPT ![cp] = buy_from(@, sup.base_supply.decks[id + 1]).player],
                  cp,
                  with_base_deck(sup, id + 1,
                                 buy_from(ps[cp], sup.base_supply.decks[id + 1]).deck),
                  tr, "buys")

\* Human.buy for an identifier of the kingdom supply, local_id being
\* identifier - kingdom_supply.id_start
buy_kingdom(ps, cp, sup, tr, local_id) ==
    IF buy_check(sup.kingdom_supply.decks[local_id + 1], ps[cp].coins) # "buys"
    THEN Reprompt(ps, sup, tr, "buy", NoFrame,
                  buy_check(sup.kingdom_supply.decks[local_id + 1], ps[cp].coins))
    ELSE buy_loop([ps EXCEPT ![cp] =
                      buy_from(@, sup.kingdom_supply.decks[local_id + 1]).player],
                  cp,
                  with_kingdom_deck(sup, local_id + 1,
                      buy_from(ps[cp], sup.kingdom_supply.decks[local_id + 1]).deck),
                  tr, "buys")

\* Human.buy at its prompt
buy_answer(ps, cp, sup, tr, a) ==
    CASE a.kind = "pass" -> {buy_pass(ps, cp, sup, tr, "pass")}
      [] a.kind = "quit" -> {Quit(ps, sup, tr)}
      [] a.kind = "help" -> {Reprompt(ps, sup, tr, "buy", NoFrame, "help")}
      [] a.kind = "text" ->
           {Reprompt(ps, sup, tr, "buy", NoFrame,
                     "Invalid card identifier. Specify an integer.")}
      [] a.kind = "id" ->
           IF InList(a.id, sup.base_supply.identifiers)
           THEN {buy_base(ps, cp, sup, tr, a.id)}
           ELSE IF InList(a.id, sup.kingdom_supply.identifiers)
           THEN {buy_kingdom(ps, cp, sup, tr, a.id - sup.kingdom_supply.id_start)}
           ELSE {Reprompt(ps, sup, tr, "buy", NoFrame, "Invalid card identifier.")}

\* checks that do not look at the type of the card
free_buy_check_any_type(deck, card_type, max_cost) ==
    IF deck.num_cards < 1 THEN "Cannot buy, not enough inventory."
    ELSE IF cost(deck.cards[1]) > max_cost THEN "Cannot buy, not enough coin."
    ELSE "gains"

\* the checks of Human.free_buy on the deck chosen: the message of the
\* failed check, or "gains"
free_buy_check(deck, card_type, max_cost) ==
    IF deck.num_cards < 1 THEN "Cannot buy, not enough inventory."
    ELSE IF card_type # "None" /\ card_type \notin get_parent_classes(deck.cards[1])
    THEN "Cannot buy that type of card."
    ELSE IF cost(deck.cards[1]) > max_cost THEN "Cannot buy, not enough coin."
    ELSE "gains"

\* a gain that leaves the card in the pile as well
gain_from_copy(p, deck, destination) ==
    IF destination = "hand"
    THEN [player |-> [p EXCEPT !.hand = transfer(deck, p.hand, <<0>>).target],
          deck |-> deck]
    ELSE [player |-> [p EXCEPT !.discard_pile
                                  = transfer(deck, p.discard_pile, <<0>>).target],
          deck |-> deck]

\* the transfer of Human.free_buy from deck to dest_pile; [player, deck]
gain_from(p, deck, destination) ==
    IF destination = "hand"
    THEN LET t == transfer(deck, p.hand, <<0>>)
         IN [player |-> [p EXCEPT !.hand = t.target], deck |-> t.source]
    ELSE LET t == transfer(deck, p.discard_pile, <<0>>)
         IN [player |-> [p EXCEPT !.discard_pile = t.target], deck |-> t.source]

\* Human.free_buy at its prompt, called by Mine, Remodel or Workshop
free_buy_answer(ps, cp, sup, tr, fr, a) ==
    CASE a.kind = "pass" ->
           IF fr.card \in {"Mine", "Remodel"}
           THEN {finish_play(ps, cp, sup, tr, "pass")}
           ELSE {action_pass(ps, cp, sup, tr, "pass")}
      [] a.kind = "quit" -> {Quit(ps, sup, tr)}
      [] a.kind = "help" -> {Reprompt(ps, sup, tr, "gain", fr, "help")}
      [] a.kind = "text" ->
           {Reprompt(ps, sup, tr, "gain", fr,
                     "Invalid card identifier. Specify an integer.")}
      [] a.kind = "id" ->
           IF InList(a.id, sup.base_supply.identifiers)
           THEN LET deck == sup.base_supply.decks[a.id + 1]
                    msg == free_buy_check(deck, fr.card_type, fr.max_cost)
                IN IF msg # "gains" THEN {Reprompt(ps, sup, tr, "gain", fr, msg)}
                   ELSE LET g == gain_from(ps[cp], deck, fr.destination)
                        IN {finish_play([ps EXCEPT ![cp] = g.player], cp,
                                        with_base_deck(sup, a.id + 1, g.deck), tr,
                                        "gains")}
           ELSE IF InList(a.id, sup.kingdom_supply.identifiers)
           THEN LET local_id == a.id - sup.kingdom_supply.id_start
                    deck == sup.kingdom_supply.decks[local_id + 1]
                    msg == free_buy_check(deck, fr.card_type, fr.max_cost)
                IN IF msg # "gains" THEN {Reprompt(ps, sup, tr, "gain", fr, msg)}
                   ELSE LET g == gain_from(ps[cp], deck, fr.destination)
                        IN {finish_play([ps EXCEPT ![cp] = g.player], cp,
                                        with_kingdom_deck(sup, local_id + 1, g.deck),
                                        tr, "gains")}
           ELSE {Reprompt(ps, sup, tr, "gain", fr, "Invalid card identifier.")}

(***************************************************************************)
(* dominion.py: Game.end_game.                                             *)
(***************************************************************************)
\* the indices of vps by descending value, for values without ties
RECURSIVE descending(_, _)
descending(vps, left) ==
    IF left = {} THEN <<>>
    ELSE LET m == CHOOSE i \in left : \A j \in left : vps[j] <= vps[i]
         IN <<m>> \o descending(vps, left \ {m})

\* sorted(zip(end_game_victory, end_game_players), reverse=True): the tuples
\* compare by points first and, the points being equal, by the Human
\* objects, which define no order: TypeError
sorted_reverse(vps) ==
    IF \E i, j \in 1..Len(vps) : i < j /\ vps[i] = vps[j]
    THEN [err |-> "TypeError", order |-> <<>>]
    ELSE [err |-> "none", order |-> descending(vps, 1..Len(vps))]

\* the places loop of Game.end_game over the sorted points
RECURSIVE places_loop(_, _, _)
places_loop(sorted_vps, num, places) ==
    IF num >= Len(sorted_vps) THEN places
    ELSE IF num = 0 THEN places_loop(sorted_vps, 1, <<1>>)
    ELSE LET place == places[num]
         IN places_loop(sorted_vps, num + 1,
                        Append(places,
                               IF sorted_vps[num + 1] # sorted_vps[num]
                               THEN place + 1 ELSE place))

\* the sorted points: the points of the players in their sorted order
sorted_points(end_game_victory, order) ==
    [k \in 1..Len(order) |-> end_game_victory[order[k]]]

\* the rest of Game.end_game once every player's points are counted
end_game_sorted(qs, end_game_victory, srt) ==
    IF srt.err # "none"
    THEN [status |-> srt.err, players |-> qs, end_game_players |-> <<>>,
          end_game_victory |-> <<>>, places |-> <<>>]
    ELSE [status |-> "ended", players |-> qs, end_game_players |-> srt.order,
          end_game_victory |-> sorted_points(end_game_victory, srt.order),
          places |-> places_loop(sorted_points(end_game_victory, srt.order), 0, <<>>)]

\* the points of the players after Player.end_game
end_game_points(qs) ==
    end_game_sorted(qs, [i \in 1..Len(qs) |-> qs[i].victory_points],
                    sorted_reverse([i \in 1..Len(qs) |-> qs[i].victory_points]))

\* an end_game that counts the points of every player twice
game_end_game_twice(ps) ==
    end_game_points([i \in 1..Len(ps) |-> player_end_game(player_end_game(ps[i]))])

\* Game.end_game: [status, players, end_game_players, end_game_victory, places]
game_end_game(ps) == end_game_points([i \in 1..Len(ps) |-> player_end_game(ps[i])])

(***************************************************************************)
(* The steps of the program.                                               *)
(***************************************************************************)
Last(op, player, kind, id, out, card) ==
    [op |-> op, player |-> player, kind |-> kind, id |-> id, out |-> out,
     card |-> card]

\* base_supply.decks + kingdom_supply.decks
all_decks(sup) == sup.base_supply.decks \o sup.kingdom_supply.decks

PileCounts(sup) == [k \in 1..Len(all_decks(sup)) |-> all_decks(sup)[k].num_cards]

Snapshot == [players |-> players, piles |-> PileCounts(supply),
             trash |-> trash.num_cards, pc |-> pc, frame |-> frame]

Running == [status |-> "running", end_game_players |-> <<>>,
            end_game_victory |-> <<>>, places |-> <<>>]

\* the answers tried at a prompt that names a card of a hand: every
\* identifier of the hand and the first integer past them
HandAnswers(p) ==
    {[kind |-> k, id |-> 0] : k \in {"pass", "quit", "help", "text"}}
    \cup {[kind |-> "id", id |-> i] : i \in 0..p.hand.num_cards}

\* the identifiers tried at a prompt that names a pile of the supply: base
\* piles, kingdom piles, and 16, which names no pile
SupplyIdsTried == {0, 1, 2, 4, 5, 6, 7, 16}

SupplyAnswers ==
    {[kind |-> k, id |-> 0] : k \in {"pass", "quit", "help", "text"}}
    \cup {[kind |-> "id", id |-> i] : i \in SupplyIdsTried}

\* the card an answer names in a hand, "" if none
HandCard(p, a) ==
    IF a.kind = "id" /\ InList(a.id, p.hand.identifiers)
    THEN p.hand.cards[a.id + 1] ELSE ""

\* the card type of the pile an answer names, "" if none
PileCard(sup, a) ==
    IF a.kind = "id" /\ a.id >= 0 /\ a.id < Len(all_decks(sup))
    THEN (sup.base_supply.decks_ref \o sup.kingdom_supply.decks_ref)[a.id + 1]
    ELSE ""

\* the turns started since the first state of the game model
RECURSIVE SumTurns(_)
SumTurns(ps) ==
    IF ps = <<>> THEN 0 ELSE (Head(ps).turns - RoundsPlayed) + SumTurns(Tail(ps))

\* a step that leaves the configuration c
Becomes(c) ==
    /\ players' = c.players
    /\ supply' = c.supply
    /\ trash' = c.trash
    /\ pc' = c.pc
    /\ frame' = c.frame
    /\ result' = IF c.status = "running" THEN result
                 ELSE [Running EXCEPT !.status = c.status]
    /\ pre' = Snapshot

\* the step of an answer a at a prompt of player who, naming card
Step(c, op, who, a, card) ==
    /\ Becomes(c)
    /\ last' = Last(op, who, a.kind, a.id, c.out, card)
    /\ hist' = [hist EXCEPT !.at_play = IF op = "action" /\ c.out = "played"
                                        THEN players ELSE @,
                            !.plays = IF op = "action" /\ c.out = "played"
                                      THEN @ + 1 ELSE @]

\* Game.play_game: one iteration of the for loop up to the first prompt of
\* the player's turn (Human.turn, Human.action_phase), or the break
StartTurn ==
    /\ pc = "loop"
    /\ LET scp == set_current_player(players, player_num)
           cp == scp.current_player
       IN /\ current_player' = cp
          /\ other_players' = scp.other_players
          /\ IF check_end_game(supply)
             THEN /\ pc' = "scoring"
                  /\ last' = Last("check_end_game", cp, "", 0, "ended", "")
                  /\ pre' = Snapshot
                  /\ UNCHANGED <<players, supply, trash, frame, result>>
             ELSE /\ SumTurns(players) < MaxTurnsStarted
                  /\ Becomes(action_phase([players EXCEPT ![cp].turns = @ + 1], cp,
                                          supply, trash, "turn"))
                  /\ last' = Last("turn", cp, "", 0, "turn", "")
    /\ UNCHANGED <<turn, player_num, hist>>

\* Game.end_game, after the loop
EndGame ==
    /\ pc = "scoring"
    /\ LET e == game_end_game(players)
       IN /\ players' = e.players
          /\ result' = [status |-> e.status, end_game_players |-> e.end_game_players,
                        end_game_victory |-> e.end_game_victory, places |-> e.places]
    /\ pc' = "done"
    /\ last' = Last("end_game", 0, "", 0, "", "")
    /\ pre' = Snapshot
    /\ UNCHANGED <<supply, trash, current_player, other_players, turn, player_num,
                   frame, hist>>

\* an answer at the prompt of Human.action
ActionAnswer ==
    /\ pc = "action"
    /\ \E a \in HandAnswers(players[current_player]) :
         \E c \in action_answer(players, current_player, other_players, supply,
                                trash, a) :
           Step(c, "action", current_player, a, HandCard(players[current_player], a))
    /\ UNCHANGED <<current_player, other_players, turn, player_num>>

\* an answer at the prompt of Human.discard
DiscardAnswer ==
    /\ pc = "discard"
    /\ LET who == IF frame.card = "Militia" THEN other_players[frame.victim]
                  ELSE current_player
       IN \E a \in HandAnswers(players[who]) :
            \E c \in discard_answer(players, current_player, other_players, supply,
                                    trash, frame, a) :
              Step(c, "discard", who, a, HandCard(players[who], a))
    /\ UNCHANGED <<current_player, other_players, turn, player_num>>

\* an answer at the prompt of Human.trash
TrashAnswer ==
    /\ pc = "trash"
    /\ \E a \in HandAnswers(players[current_player]) :
         \E c \in trash_answer(players, current_player, supply, trash, frame, a) :
           Step(c, "trash", current_player, a, HandCard(players[current_player], a))
    /\ UNCHANGED <<current_player, other_players, turn, player_num>>

\* an answer at the prompt of Human.free_buy
FreeBuyAnswer ==
    /\ pc = "gain"
    /\ \E a \in SupplyAnswers :
         \E c \in free_buy_answer(players, current_player, supply, trash, frame, a) :
           Step(c, "free_buy", current_player, a, PileCard(supply, a))
    /\ UNCHANGED <<current_player, other_players, turn, player_num>>

\* an answer at the prompt of Human.buy
BuyAnswer ==
    /\ pc = "buy"
    /\ \E a \in SupplyAnswers :
         \E c \in buy_answer(players, current_player, supply, trash, a) :
           Step(c, "buy", current_player, a, PileCard(supply, a))
    /\ UNCHANGED <<current_player, other_players, turn, player_num>>

\* a loop that gives the next turn to the same player
next_iteration_same_player(t, num, num_players) ==
    [turn |-> t + 1, player_num |-> num]

\* play_game's loop after a turn returned: the next player of the for loop,
\* or the next pass of the while loop; [turn, player_num]
next_iteration(t, num, num_players) ==
    IF num + 1 < num_players THEN [turn |-> t, player_num |-> num + 1]
    ELSE [turn |-> t + 1, player_num |-> 0]

\* the cleanup phase of Human.turn (Player.cleanup), then play_game's loop up
\* to its next iteration
Cleanup ==
    /\ pc = "cleanup"
    /\ \E r \in cleanup(players[current_player]) :
         LET qs == [players EXCEPT ![current_player] = r.player]
             nx == next_iteration(turn, player_num, Len(players))
         IN IF r.err = "none"
            THEN /\ Becomes(Cfg(qs, supply, trash, "loop", NoFrame, "", "running"))
                 /\ turn' = nx.turn
                 /\ player_num' = nx.player_num
            ELSE /\ Becomes(Crash(qs, supply, trash))
                 /\ UNCHANGED <<turn, player_num>>
    /\ last' = Last("cleanup", current_player, "", 0, "", "")
    /\ hist' = [hist EXCEPT !.cleanups[current_player] = @ + 1, !.plays = 0]
    /\ UNCHANGED <<current_player, other_players>>

(***************************************************************************)
(* The first states of the game model: games in progress at the start of   *)
(* a round, after RoundsPlayed rounds.  Every player stands as cleanup     *)
(* left them, each pile holds what the players have not taken from it, and *)
(* nothing has been trashed, so that no card is lost or made.              *)
(***************************************************************************)
StartingDeck == CardDeck("Copper", 7).cards \o CardDeck("Estate", 3).cards

supply_refs(sup) == sup.base_supply.decks_ref \o sup.kingdom_supply.decks_ref

\* the cards of a type that the players hold
RECURSIVE Owned(_, _)
Owned(zones, card) ==
    IF zones = <<>> THEN 0
    ELSE CountOf(Head(zones).deck \o Head(zones).hand \o Head(zones).discard_pile, card)
         + Owned(Tail(zones), card)

\* the cards the players took from the pile of a type
Taken(zones, card) == Owned(zones, card) - Len(zones) * CountOf(StartingDeck, card)

\* the supply of the game after the players took the cards they hold
SupplyLeft(sup, zones) ==
    [sup EXCEPT
       !.base_supply.decks =
           [k \in 1..Len(@) |->
              CardDeck(sup.base_supply.decks_ref[k],
                       @[k].num_cards - Taken(zones, sup.base_supply.decks_ref[k]))],
       !.kingdom_supply.decks =
           [k \in 1..Len(@) |->
              CardDeck(sup.kingdom_supply.decks_ref[k],
                       @[k].num_cards - Taken(zones, sup.kingdom_supply.decks_ref[k]))]]

\* no pile gave more cards than it had, and no starting card is missing
Legal(sup, zones) ==
    \A k \in 1..Len(supply_refs(sup)) :
       /\ Taken(zones, supply_refs(sup)[k]) >= 0
       /\ Taken(zones, supply_refs(sup)[k]) <= all_decks(sup)[k].num_cards

\* a player between turns, as Player.cleanup leaves them
PlayerBetweenTurns(z) ==
    set_coins(reset_points(
        PlayerObject(z.deck, z.hand, z.discard_pile, <<>>, RoundsPlayed)))

Zones(deck, hand, discard_pile) ==
    [deck |-> deck, hand |-> hand, discard_pile |-> discard_pile]

\* solo games.  In the first the Estate and Duchy piles are empty and the
\* Province and Cellar piles hold one card; in the second the hand holds the
\* cards that trash and gain, and the Market pile is empty.  The cards at the
\* bottom of the deck are not drawn in the turns explored.
SoloScenarios ==
    {<<Zones(<<"Copper", "Estate", "Smithy", "Copper", "Copper", "Copper", "Copper">>
             \o Repeat("Estate", 10) \o Repeat("Duchy", 8) \o Repeat("Province", 7)
             \o Repeat("Cellar", 9),
             <<"Festival", "Village", "Copper", "Silver", "Gold">>,
             <<"Copper">>)>>,
     <<Zones(<<"Merchant", "Silver", "Copper", "Copper", "Estate", "Copper">>
             \o Repeat("Copper", 3) \o Repeat("Estate", 1) \o Repeat("Silver", 12)
             \o Repeat("Market", 10),
             <<"Remodel", "Workshop", "Mine", "Copper", "Estate">>,
             <<>>)>>}

\* games of two: the first player holds Militia, the second holds Moat or not
DuelScenarios ==
    {<<Zones(<<"Copper", "Copper", "Estate", "Silver", "Copper", "Estate">>
             \o Repeat("Copper", 2) \o Repeat("Silver", 10),
             <<"Militia", "Copper", "Copper", "Copper", "Estate">>,
             <<>>),
       Zones(<<"Copper", "Copper", "Estate", "Copper", "Copper", "Copper">>
             \o Repeat("Silver", 12),
             h, <<>>)>>
     : h \in {<<"Moat", "Copper", "Copper", "Estate", "Estate">>,
              <<"Copper", "Copper", "Market", "Estate", "Estate">>}}

Scenarios == SoloScenarios \cup DuelScenarios

Init ==
    \E zones \in Scenarios :
      /\ Legal(Supply(Len(zones)), zones)
      /\ players = [i \in 1..Len(zones) |-> PlayerBetweenTurns(zones[i])]
      /\ supply = SupplyLeft(Supply(Len(zones)), zones)
      /\ trash = CardContainer(<<>>, 0)
      /\ current_player = 1
      /\ other_players = set_current_player(players, 0).other_players
      /\ turn = RoundsPlayed + 1
      /\ player_num = 0
      /\ pc = "loop"
      /\ frame = NoFrame
      /\ result = Running
      /\ last = Last("", 0, "", 0, "", "")
      /\ pre = Snapshot
      /\ hist = [at_play |-> players, plays |-> 0, cleanups |-> [i \in 1..Len(zones) |-> 0]]

Next ==
    \/ StartTurn
    \/ ActionAnswer
    \/ DiscardAnswer
    \/ TrashAnswer
    \/ FreeBuyAnswer
    \/ BuyAnswer
    \/ Cleanup
    \/ EndGame

Spec == Init /\ [][Next]_vars

(***************************************************************************)
(* Solo games late in play: the player has trashed the ten starting cards  *)
(* and seven Provinces with Remodel and holds five or six cards in all, so *)
(* that a draw can ask for more cards than the deck and the discard pile   *)
(* hold.  The first state stands before the last turn explored.            *)
(***************************************************************************)
\* the cards trashed so far
ThinTrash == Repeat("Copper", 7) \o Repeat("Estate", 3) \o Repeat("Province", 7)

\* the zones of the player: a hand that trashes and gains, hands that draw,
\* a hand that discards, a hand that draws the deck out and the discard
\* pile in, and a hand that gains with actions to spare
ThinScenarios ==
    {Zones(<<>>, <<"Remodel", "Gold", "Copper", "Copper", "Copper">>, <<>>),
     Zones(<<>>, <<"Market", "Village", "Merchant", "Copper", "Copper">>, <<>>),
     Zones(<<"Copper">>, <<"Smithy", "Laboratory", "Copper", "Copper", "Copper">>, <<>>),
     Zones(<<>>, <<"Cellar", "Copper", "Copper", "Copper", "Copper">>, <<>>),
     Zones(<<"Copper", "Copper", "Copper">>,
           <<"Village", "Smithy", "Copper", "Copper", "Copper">>, <<>>),
     Zones(<<"Copper">>, <<"Village", "Workshop", "Copper", "Copper", "Copper">>, <<>>)}

\* the cards that left the piles: those the player holds and those trashed
OffPiles(z) == <<Zones(z.deck \o ThinTrash, z.hand, z.discard_pile)>>

InitThin ==
    \E z \in ThinScenarios :
      /\ Legal(Supply(1), OffPiles(z))
      /\ players = <<[PlayerBetweenTurns(z)
                        EXCEPT !.turns = RoundsPlayed + MaxTurnsStarted - 1]>>
      /\ supply = SupplyLeft(Supply(1), OffPiles(z))
      /\ trash = CardContainer(ThinTrash, 0)
      /\ current_player = 1
      /\ other_players = set_current_player(players, 0).other_players
      /\ turn = RoundsPlayed + MaxTurnsStarted
      /\ player_num = 0
      /\ pc = "loop"
      /\ frame = NoFrame
      /\ result = Running
      /\ last = Last("", 0, "", 0, "", "")
      /\ pre = Snapshot
      /\ hist = [at_play |-> players, plays |-> 0, cleanups |-> <<0>>]

SpecThin == InitThin /\ [][Next]_vars

(***************************************************************************)
(* Player.draw on its own: one player whose deck, hand and discard pile    *)
(* hold any cards of DrawnCards, up to MaxZone in the deck and in the      *)
(* discard pile, and one call draw(n) for n up to MaxDraw.                 *)
(***************************************************************************)
DrawnCards == {"Copper", "Estate"}

\* the lists over a set of cards, of length up to n
RECURSIVE ListsUpTo(_, _)
ListsUpTo(cardset, n) ==
    IF n = 0 THEN {<<>>}
    ELSE ListsUpTo(cardset, n - 1)
         \cup {Append(l, c) : l \in {x \in ListsUpTo(cardset, n - 1) : Len(x) = n - 1},
                              c \in cardset}

\* the variables that a specification of one operation leaves alone
Idle(n) ==
    /\ trash = CardContainer(<<>>, 0)
    /\ current_player = 1
    /\ other_players = set_current_player(players, 0).other_players
    /\ turn = 1
    /\ player_num = 0
    /\ frame = NoFrame
    /\ result = Running
    /\ last = Last("", 0, "", 0, "", "")
    /\ pre = Snapshot
    /\ hist = [at_play |-> players, plays |-> 0, cleanups |-> [i \in 1..n |-> 0]]

InitDraw ==
    \E deck \in ListsUpTo(DrawnCards, MaxZone),
       discard_pile \in ListsUpTo(DrawnCards, MaxZone),
       hand \in ListsUpTo({"Copper"}, 1) :
      /\ players = <<PlayerObject(deck, hand, discard_pile, <<>>, 0)>>
      /\ supply = Supply(1)
      /\ pc = "draw"
      /\ Idle(1)

\* one call players[0].draw(n)
DrawOp ==
    /\ pc = "draw"
    /\ \E n \in 0..MaxDraw :
         \E r \in draw(players[1], n) :
           /\ players' = <<r.player>>
           /\ last' = Last("draw", 1, "id", n, r.err, "")
    /\ pc' = "drawn"
    /\ pre' = Snapshot
    /\ UNCHANGED <<supply, trash, current_player, other_players, turn, player_num,
                   frame, result, hist>>

SpecDraw == InitDraw /\ [][DrawOp]_vars

\* C1: whenever deck.num_cards + discard_pile.num_cards >= n, draw(n) raises
\* nothing, the hand grows by exactly n cards and the deck and the discard
\* pile together shrink by exactly n cards, however the n cards split between
\* the deck and the discard pile shuffled into it.
C1_DrawSucceeds ==
    (last.op = "draw"
     /\ pre.players[1].deck.num_cards + pre.players[1].discard_pile.num_cards >= last.id)
    => /\ last.out = "none"
       /\ Len(players[1].hand.cards) = Len(pre.players[1].hand.cards) + last.id
       /\ players[1].hand.num_cards = pre.players[1].hand.num_cards + last.id
       /\ Len(players[1].deck.cards) + Len(players[1].discard_pile.cards)
            = Len(pre.players[1].deck.cards) + Len(pre.players[1].discard_pile.cards)
              - last.id
       /\ players[1].deck.num_cards + players[1].discard_pile.num_cards
            = pre.players[1].deck.num_cards + pre.players[1].discard_pile.num_cards
              - last.id

\* a draw that took cards from the deck, emptied it, and took the rest from
\* the discard pile shuffled into the deck
C1_Witness ==
    /\ last.op = "draw"
    /\ last.out = "none"
    /\ pre.players[1].deck.num_cards >= 1
    /\ pre.players[1].deck.num_cards < last.id
    /\ pre.players[1].discard_pile.num_cards > last.id - pre.players[1].deck.num_cards
    /\ players[1].discard_pile.num_cards = 0
    /\ players[1].deck.num_cards >= 1

(***************************************************************************)
(* Supply.check_end_game on its own: the supply of a game of one to three  *)
(* players in which up to MaxEmpty piles, any of them, are empty, and one  *)
(* call of check_end_game.                                                 *)
(***************************************************************************)
\* the supply with the piles at the positions in empty (1..16) emptied
SupplyEmptied(sup, empty) ==
    [sup EXCEPT
       !.base_supply.decks =
           [k \in 1..Len(@) |-> IF k \in empty THEN CardDeck(@[k].cards[1], 0) ELSE @[k]],
       !.kingdom_supply.decks =
           [k \in 1..Len(@) |->
              IF k + Len(sup.base_supply.decks) \in empty
              THEN CardDeck(@[k].cards[1], 0) ELSE @[k]]]

InitSupply ==
    \E n \in 1..3 :
      \E empty \in {e \in SUBSET (1..16) : Cardinality(e) <= MaxEmpty} :
        /\ players = [i \in 1..n |-> PlayerObject(StartingDeck, <<>>, <<>>, <<>>, 0)]
        /\ supply = SupplyEmptied(Supply(n), empty)
        /\ pc = "check"
        /\ Idle(n)

\* one call config.supply.check_end_game()
CheckOp ==
    /\ pc = "check"
    /\ pc' = "checked"
    /\ last' = Last("check", 0, "", 0,
                    IF check_end_game(supply) THEN "True" ELSE "False", "")
    /\ pre' = Snapshot
    /\ UNCHANGED <<players, supply, trash, current_player, other_players, turn,
                   player_num, frame, result, hist>>

SpecSupply == InitSupply /\ [][CheckOp]_vars

\* the number of piles, base and kingdom, that hold no card
EmptyPiles(sup) ==
    Cardinality({k \in 1..Len(all_decks(sup)) : Len(all_decks(sup)[k].cards) = 0})

\* the pile of the Province cards holds no card
ProvinceEmpty(sup) ==
    \E k \in 1..Len(all_decks(sup)) :
       supply_refs(sup)[k] = "Province" /\ Len(all_decks(sup)[k].cards) = 0

\* C2: check_end_game returns True exactly when at least 3 piles, base and
\* kingdom together, are empty or the Province pile is empty, and False in
\* every other state of the supply.
C2_EndGameIff ==
    last.op = "check"
    => (last.out = "True" <=> (EmptyPiles(supply) >= 3 \/ ProvinceEmpty(supply)))

\* check_end_game answered True for three empty piles with Provinces left
C2_Witness ==
    /\ last.op = "check"
    /\ last.out = "True"
    /\ EmptyPiles(supply) = 3
    /\ ~ProvinceEmpty(supply)

(***************************************************************************)
(* Game.end_game on its own: games of one to four players that have just   *)
(* ended.  Each player holds the starting cards and up to MaxScore more    *)
(* Estates, or the four players score 30, 30, 25 and 10; three kingdom     *)
(* piles have been emptied and their cards trashed.                        *)
(***************************************************************************)
\* the cards of players whose points are 30, 30, 25 and 10
ScoredZones ==
    <<Zones(Repeat("Copper", 2) \o Repeat("Estate", 3) \o Repeat("Province", 4)
            \o <<"Duchy">>,
            Repeat("Copper", 5), <<>>),
      Zones(Repeat("Copper", 2) \o Repeat("Estate", 3) \o Repeat("Province", 4)
            \o <<"Duchy">>,
            Repeat("Copper", 5), <<>>),
      Zones(Repeat("Copper", 2) \o Repeat("Estate", 4) \o Repeat("Province", 3)
            \o <<"Duchy">>,
            Repeat("Copper", 5), <<>>),
      Zones(Repeat("Copper", 2) \o Repeat("Estate", 4) \o Repeat("Province", 1),
            Repeat("Copper", 5), <<>>)>>

\* the cards of players who hold the starting cards and extra[i] more Estates
EstateZones(extra) ==
    [i \in 1..Len(extra) |->
       Zones(Repeat("Copper", 2) \o Repeat("Estate", 3 + extra[i]),
             Repeat("Copper", 5), <<>>)]

\* the kingdom piles emptied, as positions of all_decks
EmptiedPiles == {7, 8, 9}

RECURSIVE AllCards(_)
AllCards(decks) ==
    IF decks = <<>> THEN <<>> ELSE Head(decks).cards \o AllCards(Tail(decks))

InitRank ==
    \E zones \in {ScoredZones}
                 \cup UNION {{EstateZones(extra) : extra \in [1..n -> 0..MaxScore]}
                             : n \in 1..4} :
      /\ Legal(Supply(Len(zones)), zones)
      /\ players = [i \in 1..Len(zones) |-> PlayerBetweenTurns(zones[i])]
      /\ supply = SupplyEmptied(SupplyLeft(Supply(Len(zones)), zones), EmptiedPiles)
      /\ trash = CardContainer(
                    AllCards([k \in 1..3 |-> Supply(Len(zones)).kingdom_supply.decks[k]]), 0)
      /\ current_player = 1
      /\ other_players = set_current_player(players, 0).other_players
      /\ turn = RoundsPlayed + 1
      /\ player_num = 0
      /\ pc = "scoring"
      /\ frame = NoFrame
      /\ result = Running
      /\ last = Last("check_end_game", 1, "", 0, "ended", "")
      /\ pre = Snapshot
      /\ hist = [at_play |-> players, plays |-> 0, cleanups |-> [i \in 1..Len(zones) |-> 0]]

SpecRank == InitRank /\ [][EndGame]_vars

\* the points of a player's cards
Points(p) ==
    SumVictory(p.deck.cards \o p.hand.cards \o p.discard_pile.cards \o p.play_mat.cards)

\* C4: the end-game ranking is standard competition ranking over the points
\* in descending order: the rank of a player is 1 + the number of players
\* with strictly more points, so that players with equal points share a rank
\* (points 30, 30, 25, 10 give the ranks 1, 1, 3, 4).
C4_CompetitionRanking ==
    (pc = "done" /\ last.op = "end_game")
    => /\ result.status = "ended"
       /\ Len(result.places) = Len(players)
       /\ \A k \in 1..Len(players) :
            /\ result.end_game_victory[k] = Points(players[result.end_game_players[k]])
            /\ result.places[k] =
                 1 + Cardinality({j \in 1..Len(players) :
                                    Points(players[j]) > result.end_game_victory[k]})

\* the ranking of end_game whenever it gives one: no two players have equal
\* points, and the ranks are 1, 2, ... in descending order of points
C4_RankingGiven ==
    (pc = "done" /\ last.op = "end_game" /\ result.status = "ended")
    => /\ \A j, k \in 1..Len(players) : j # k => Points(players[j]) # Points(players[k])
       /\ result.places = [k \in 1..Len(players) |-> k]

\* end_game raises TypeError for the points 30, 30, 25, 10
C4_TieRaises ==
    (pc = "done" /\ last.op = "end_game"
     /\ [i \in 1..Len(players) |-> Points(players[i])] = <<30, 30, 25, 10>>)
    => result.status = "TypeError"

(***************************************************************************)
(* Properties of the game (Spec).                                          *)
(***************************************************************************)
\* the end-of-game condition of the supply
EndCondition(sup) == EmptyPiles(sup) >= 3 \/ ProvinceEmpty(sup)

\* a step in which a player's turn starts (Player.turn counts it)
TurnStarts ==
    \E i \in 1..Len(players) : players'[i].turns = players[i].turns + 1

\* C3: no player starts a turn while the end-of-game condition of the supply
\* holds: the loop checks it before each player's turn and, if it holds,
\* stops at once, and neither that player nor a later one gets a turn.
C3_NoTurnAtEnd ==
    [][/\ TurnStarts => ~EndCondition(supply)
       /\ (pc = "loop" /\ EndCondition(supply))
            => (pc' = "scoring" /\ players' = players /\ supply' = supply)
       /\ pc \in {"scoring", "done"} => (~TurnStarts /\ pc' \in {"scoring", "done"})]_vars

\* the loop stopped before a turn, after a turn in which the last Province
\* was bought
C3_Witness ==
    /\ pc = "scoring"
    /\ last.op = "check_end_game"
    /\ ProvinceEmpty(supply)
    /\ \E i \in 1..Len(players) : players[i].turns > RoundsPlayed

\* the current player now and before the last step
Me == players[current_player]
Was == pre.players[current_player]

\* the last step played an action card (its effect ran up to its end or up
\* to its first prompt)
Played == last.op = "action" /\ last.out = "played"

MerchantCoin ==
    IF last.card = "Merchant" /\ InList("Silver", Me.hand.cards) THEN 1 ELSE 0

MilitiaStep ==
    \/ Played /\ last.card = "Militia"
    \/ last.op = "discard" /\ pre.frame.card = "Militia"

\* C6: when Militia resolves, every other player who held a Moat when it was
\* played has the same hand, contents and size, and every other player who
\* held none has at most 3 cards in hand: exactly 3 if the hand was larger,
\* the same hand otherwise.  A player holding a Moat keeps the hand all
\* through the attack.
C6_MilitiaAndMoat ==
    (MilitiaStep /\ result.status = "running")
    => \A k \in 1..Len(other_players) :
         IF InList("Moat", hist.at_play[other_players[k]].hand.cards)
         THEN players[other_players[k]].hand = hist.at_play[other_players[k]].hand
         ELSE pc # "discard"
              => /\ Len(players[other_players[k]].hand.cards) <= 3
                 /\ Len(hist.at_play[other_players[k]].hand.cards) > 3
                      => Len(players[other_players[k]].hand.cards) = 3
                 /\ Len(hist.at_play[other_players[k]].hand.cards) <= 3
                      => players[other_players[k]].hand
                           = hist.at_play[other_players[k]].hand

\* a Militia resolved after a player without a Moat discarded from 5 cards
\* down to 3
C6_Witness ==
    /\ last.op = "discard"
    /\ pre.frame.card = "Militia"
    /\ pc \notin {"discard", "done"}
    /\ \E k \in 1..Len(other_players) :
         /\ ~InList("Moat", hist.at_play[other_players[k]].hand.cards)
         /\ Len(hist.at_play[other_players[k]].hand.cards) = 5
         /\ Len(players[other_players[k]].hand.cards) = 3

\* the coins a player can spend: turn_coins and the Treasure cards in hand
TotalCoins(p) == p.turn_coins + SumCoin(p.hand.cards)

\* the last step answered the buy prompt with an integer
BuyAttempt == last.op = "buy" /\ last.kind = "id"

\* the attempt named no pile, an empty pile, or a card that costs more than
\* the coins of the player
Rejected ==
    /\ BuyAttempt
    /\ \/ last.card = ""
       \/ pre.piles[last.id + 1] = 0
       \/ cost(last.card) > TotalCoins(Was)

\* C7: a rejected purchase attempt (cost above the player's coins, empty
\* pile, unknown identifier) leaves buys, turn_coins, every pile count and
\* the player's zones as they were, and the player is asked again.
C7_RejectedBuy ==
    Rejected
    => /\ Me.buys = Was.buys
       /\ Me.turn_coins = Was.turn_coins
       /\ PileCounts(supply) = pre.piles
       /\ players = pre.players
       /\ trash.num_cards = pre.trash
       /\ pc = "buy"
       /\ result.status = "running"

\* an attempt to buy a card of a pile that is not empty, for more coins than
\* the player has
C7_Witness ==
    /\ BuyAttempt
    /\ last.card # ""
    /\ pre.piles[last.id + 1] > 0
    /\ cost(last.card) > TotalCoins(Was)
    /\ pc = "buy"

\* the attempt changed a player or a pile: the purchase was made
Bought == BuyAttempt /\ (players # pre.players \/ PileCounts(supply) # pre.piles)

\* C8: a buy succeeds only if the player's coins are at least the cost of
\* the card and the pile is not empty; it takes the cost from turn_coins and
\* 1 from buys, the pile loses one card, and the card is appended to the
\* discard pile of the buyer, whose hand and deck stay as they were.
C8_Buy ==
    Bought
    => /\ last.card # ""
       /\ TotalCoins(Was) >= cost(last.card)
       /\ pre.piles[last.id + 1] >= 1
       /\ Me.turn_coins = Was.turn_coins - cost(last.card)
       /\ Me.buys = Was.buys - 1
       /\ PileCounts(supply) = [pre.piles EXCEPT ![last.id + 1] = @ - 1]
       /\ Me.discard_pile.cards = Append(Was.discard_pile.cards, last.card)
       /\ Me.discard_pile.num_cards = Was.discard_pile.num_cards + 1
       /\ Me.hand = Was.hand
       /\ Me.deck = Was.deck
       /\ Me.play_mat = Was.play_mat
       /\ \A i \in 1..Len(players) : i # current_player => players[i] = pre.players[i]

\* the last Province bought, by a player with two buys
C8_Witness ==
    /\ Bought
    /\ last.card = "Province"
    /\ Was.buys = 2
    /\ Me.buys = 1
    /\ pre.piles[last.id + 1] = 1

\* the phase of a turn that a prompt belongs to
Phase(p) ==
    CASE p \in {"action", "discard", "trash", "gain"} -> 1
      [] p = "buy" -> 2
      [] p = "cleanup" -> 3
      [] OTHER -> 0

\* C9: within a turn the phases come in the order Action, Buy, Cleanup and
\* never go back: no action card is played once the buy phase has started,
\* nothing is bought once the cleanup has started, a turn ends through the
\* cleanup only, and the cleanup has run exactly once for every turn that is
\* over.
C9_PhaseOrder ==
    /\ [](/\ pc = "loop"
             => \A i \in 1..Len(players) :
                  hist.cleanups[i] = players[i].turns - RoundsPlayed
          /\ Phase(pc) > 0
             => /\ hist.cleanups[current_player] = Me.turns - RoundsPlayed - 1
                /\ \A i \in 1..Len(players) :
                     i # current_player
                     => hist.cleanups[i] = players[i].turns - RoundsPlayed)
    /\ [][/\ (Phase(pc) > 0 /\ Phase(pc') > 0) => Phase(pc') >= Phase(pc)
          /\ Phase(pc) >= 2
             => last'.op \notin {"action", "discard", "trash", "free_buy"}
          /\ Phase(pc) = 2
             => /\ players'[current_player].play_mat = Me.play_mat
                /\ players'[current_player].hand = Me.hand
          /\ Phase(pc) = 3 => (last'.op = "cleanup" /\ supply' = supply)
          /\ (pc' = "loop" /\ pc # "loop") => (pc = "cleanup" /\ last'.op = "cleanup")]_vars

\* a turn is over in which Festival was played and a Province was bought
C9_Witness ==
    /\ pc = "loop"
    /\ last.op = "cleanup"
    /\ hist.cleanups[current_player] = 1
    /\ Me.turns = RoundsPlayed + 1
    /\ InList("Festival", Was.discard_pile.cards)
    /\ InList("Province", Was.discard_pile.cards)

\* C10: a pass at the prompt of the action phase ends the phase at once,
\* whatever actions remain, and a pass at the prompt of the buy phase ends
\* that phase at once, whatever buys remain: no card is played or bought,
\* and the next prompt belongs to a later phase.
C10_PassEndsPhase ==
    /\ (last.op = "action" /\ last.kind = "pass")
       => /\ pc \in {"buy", "cleanup"}
          /\ Me.actions = 0
          /\ Me.hand = Was.hand /\ Me.play_mat = Was.play_mat
          /\ Me.discard_pile = Was.discard_pile /\ Me.deck = Was.deck
    /\ (last.op = "buy" /\ last.kind = "pass")
       => /\ pc = "cleanup"
          /\ Me.buys = 0
          /\ PileCounts(supply) = pre.piles
          /\ Me.turn_coins = Was.turn_coins
          /\ Me.hand = Was.hand /\ Me.play_mat = Was.play_mat
          /\ Me.discard_pile = Was.discard_pile /\ Me.deck = Was.deck

\* a pass at the action prompt with two actions left
C10_Witness ==
    /\ last.op = "action"
    /\ last.kind = "pass"
    /\ Was.actions = 2
    /\ pc = "buy"

\* C11: a quit at any prompt (play, buy, discard, trash, gain), a prompt
\* inside a card effect and the discard prompt of a player attacked by
\* Militia included, leaves every effect and phase and ends the game loop:
\* the program is done with DominionQuitError, and the end-of-game scoring
\* does not run, then or later.
C11_QuitAborts ==
    /\ [](/\ last.kind = "quit"
             => /\ pc = "done"
                /\ result.status = "DominionQuitError"
                /\ result.places = <<>>
                /\ \A i \in 1..Len(players) :
                     players[i].victory_points = pre.players[i].victory_points
          /\ result.status = "DominionQuitError"
             => (pc = "done" /\ last.kind = "quit"))
    /\ [][result.status = "DominionQuitError"
          => (last'.op # "end_game" /\ result' = result /\ players' = players)]_vars

\* the player attacked by a Militia quit at the discard prompt, the Militia
\* still on the play mat of the player who played it
C11_Witness ==
    /\ last.op = "discard"
    /\ last.kind = "quit"
    /\ pre.frame.card = "Militia"
    /\ last.player # current_player
    /\ Me.play_mat.cards = <<"Militia">>
    /\ pc = "done"

(***************************************************************************)
(* Properties of the game late in play (SpecThin).                         *)
(***************************************************************************)
\* the cards of a player, in the four zones
CardsOwned(p) ==
    Len(p.deck.cards) + Len(p.hand.cards) + Len(p.discard_pile.cards)
    + Len(p.play_mat.cards)

\* what cleanup leaves when it returns
CleanedUp(p) ==
    /\ Len(p.play_mat.cards) = 0
    /\ Len(p.hand.cards) = 5
    /\ p.hand.num_cards = 5
    /\ p.actions = 1
    /\ p.buys = 1
    /\ p.turn_coins = 0
    /\ p.coins = SumCoin(p.hand.cards)

ScoredCards == {"Copper", "Duchy"}

InitScore ==
    \E deck \in ListsUpTo(ScoredCards, MaxHeld),
       hand \in ListsUpTo(ScoredCards, MaxHeld),
       discard_pile \in ListsUpTo(ScoredCards, MaxHeld),
       play_mat \in ListsUpTo(ScoredCards, MaxHeld) :
      /\ players = <<set_coins(reset_points(
                        PlayerObject(deck, hand, discard_pile, play_mat, 1)))>>
      /\ supply = Supply(1)
      /\ trash = CardContainer(<<"Province">>, 0)
      /\ current_player = 1
      /\ other_players = <<>>
      /\ turn = 1
      /\ player_num = 0
      /\ pc = "score"
      /\ frame = NoFrame
      /\ result = Running
      /\ last = Last("", 0, "", 0, "", "")
      /\ pre = Snapshot
      /\ hist = [at_play |-> players, plays |-> 0, cleanups |-> <<0>>]

\* one call players[0].end_game()
PlayerEndGameOp ==
    /\ pc = "score"
    /\ players' = <<player_end_game(players[1])>>
    /\ pc' = "scored"
    /\ last' = Last("player_end_game", 1, "", 0, "", "")
    /\ pre' = Snapshot
    /\ UNCHANGED <<supply, trash, current_player, other_players, turn, player_num,
                   frame, result, hist>>

SpecScore == InitScore /\ [][PlayerEndGameOp]_vars

\* the cards of a player, zone after zone
CardsOf(p) == p.deck.cards \o p.hand.cards \o p.discard_pile.cards \o p.play_mat.cards

\* the victory values of the cards of a list, type by type
VictoryOf(cards) ==
    CountOf(cards, "Estate") + 3 * CountOf(cards, "Duchy") + 6 * CountOf(cards, "Province")

\* C13: Player.end_game() moves every card of the play mat, the hand and the
\* discard pile into the deck and leaves the three zones empty, and adds to
\* victory_points exactly the sum of the victory values of all the cards the
\* player owns; the cards in the trash add nothing.
C13_EndGameScores ==
    last.op = "player_end_game"
    => /\ Me.play_mat.cards = <<>> /\ Me.play_mat.num_cards = 0
       /\ Me.hand.cards = <<>> /\ Me.hand.num_cards = 0
       /\ Me.discard_pile.cards = <<>> /\ Me.discard_pile.num_cards = 0
       /\ \A c \in CardNames :
            CountOf(Me.deck.cards, c) = CountOf(CardsOf(Was), c)
       /\ Me.deck.num_cards = Len(CardsOf(Was))
       /\ Me.victory_points = Was.victory_points + VictoryOf(CardsOf(Was))
       /\ trash.num_cards = pre.trash

\* a Duchy in each of the four zones and a Province in the trash: 12 points
C13_Witness ==
    /\ last.op = "player_end_game"
    /\ InList("Duchy", Was.play_mat.cards) /\ InList("Duchy", Was.hand.cards)
    /\ InList("Duchy", Was.discard_pile.cards) /\ InList("Duchy", Was.deck.cards)
    /\ CountOf(CardsOf(Was), "Duchy") = 4
    /\ trash.cards = <<"Province">>
    /\ Me.victory_points = 12

(***************************************************************************)
(* CardContainer and transfer on their own: a zone (the hand of a player,  *)
(* built with id_start 0 or 1 from up to MaxHeld + 1 cards) and a second   *)
(* zone (the discard pile, holding one card), and up to MaxCalls calls in  *)
(* a row of add_cards, remove_cards, shuffle and transfer; turn counts     *)
(* the calls.  The identifiers passed are any lists                        *)
(* of up to two integers of -1..MaxHeld, or all the identifiers of the     *)
(* zone.  last.id holds the identifiers passed, last.card the cards        *)
(* returned or passed, last.out the exception raised.                      *)
(***************************************************************************)
ZoneCards == {"Copper", "Estate"}

\* the lists of identifiers passed to a zone
IdLists(z) ==
    {<<>>} \cup {<<i>> : i \in -1..MaxHeld}
    \cup {<<i, j>> : i \in -1..MaxHeld, j \in -1..MaxHeld}
    \cup {z.identifiers}

InitZone ==
    \E hand \in ListsUpTo(ZoneCards, MaxHeld + 1),
       discard_pile \in {<<"Estate">>},
       id_start \in {0, 1} :
      /\ players = <<[PlayerObject(<<>>, <<>>, discard_pile, <<>>, 0)
                        EXCEPT !.hand = CardContainer(hand, id_start)]>>
      /\ supply = Supply(1)
      /\ pc = "zone"
      /\ Idle(1)

\* what a call leaves: the two zones, and the record of the call
Called(op, hand, discard_pile, ids, out, cards) ==
    /\ turn <= MaxCalls
    /\ players' = <<[players[1] EXCEPT !.hand = hand, !.discard_pile = discard_pile]>>
    /\ last' = Last(op, 1, "ids", ids, out, cards)
    /\ turn' = turn + 1
    /\ pre' = Snapshot
    /\ UNCHANGED <<supply, trash, current_player, other_players, player_num, pc,
                   frame, result, hist>>

\* hand.add_cards(cards)
AddOp ==
    /\ pc = "zone"
    /\ \E c \in ZoneCards :
         Called("add_cards", add_cards(players[1].hand, <<c>>),
                players[1].discard_pile, <<>>, "none", <<c>>)

\* a call whose remove_cards returned r and which left the zones given
Removed(op, hand, discard_pile, ids, r) ==
    Called(op, hand, discard_pile, ids, r.err, r.removed)

\* hand.remove_cards(ids)
RemoveOp ==
    /\ pc = "zone"
    /\ \E ids \in IdLists(players[1].hand) :
         \E r \in {remove_cards(players[1].hand, ids)} :
           Removed("remove_cards", r.zone, players[1].discard_pile, ids, r)

\* hand.add_cards(hand.remove_cards(ids)); add_cards is not reached if
\* remove_cards raises
RoundTripOp ==
    /\ pc = "zone"
    /\ \E ids \in IdLists(players[1].hand) :
         \E r \in {remove_cards(players[1].hand, ids)} :
           Removed("round_trip", added_to(r.zone, r).target,
                   players[1].discard_pile, ids, r)

\* hand.shuffle()
ShuffleOp ==
    /\ pc = "zone"
    /\ \E z \in shuffle(players[1].hand) :
         Called("shuffle", z, players[1].discard_pile, <<>>, "none", <<>>)

\* transfer(hand, discard_pile, ids)
TransferOp ==
    /\ pc = "zone"
    /\ \E ids \in IdLists(players[1].hand) :
         \E t \in {transfer(players[1].hand, players[1].discard_pile, ids)},
            r \in {remove_cards(players[1].hand, ids)} :
           Removed("transfer", t.source, t.target, ids, r)

\* transfer(hand, discard_pile)
TransferAllOp ==
    /\ pc = "zone"
    /\ \E t \in {transfer_all(players[1].hand, players[1].discard_pile)},
          r \in {remove_cards(players[1].hand, players[1].hand.identifiers)} :
         Removed("transfer_all", t.source, t.target, players[1].hand.identifiers, r)

NextZone ==
    \/ AddOp
    \/ RemoveOp
    \/ RoundTripOp
    \/ ShuffleOp
    \/ TransferOp
    \/ TransferAllOp

SpecZone == InitZone /\ [][NextZone]_vars

\* the zone and the second zone, now and before the last call
ZoneNow == players[1].hand
ZoneWas == pre.players[1].hand
TargetNow == players[1].discard_pile
TargetWas == pre.players[1].discard_pile

\* the identifiers and num_cards of a zone match its cards
WellFormed(z) ==
    /\ z.identifiers = [k \in 1..Len(z.cards) |-> z.id_start + k - 1]
    /\ z.num_cards = Len(z.cards)

\* ids names cards of the zone, each once
ValidIds(ids, z) ==
    /\ \A k \in 1..Len(ids) : ids[k] >= z.id_start /\ ids[k] < z.id_start + Len(z.cards)
    /\ \A j, k \in 1..Len(ids) : j # k => ids[j] # ids[k]

\* two lists hold the same cards, each as many times
SameCards(s, t) == \A c \in CardNames : CountOf(s, c) = CountOf(t, c)

\* C14: for every zone and every valid list of identifiers ids, remove_cards(ids)
\* followed by add_cards of the cards returned gives the zone the number of
\* cards it had and the same cards, each as many times as before (the order
\* may differ).
C14_RoundTrip ==
    (last.op = "round_trip" /\ WellFormed(ZoneWas) /\ ValidIds(last.id, ZoneWas))
    => /\ last.out = "none"
       /\ ZoneNow.num_cards = ZoneWas.num_cards
       /\ Len(ZoneNow.cards) = Len(ZoneWas.cards)
       /\ SameCards(ZoneNow.cards, ZoneWas.cards)
       /\ ZoneNow.identifiers = ZoneWas.identifiers

\* a round trip of the first card of a zone of two different cards, which
\* comes back as the last
C14_Witness ==
    /\ last.op = "round_trip"
    /\ last.id = <<ZoneWas.id_start>>
    /\ ZoneWas.cards = <<"Copper", "Estate">>
    /\ ZoneNow.cards = <<"Estate", "Copper">>

\* C15: after any sequence of add_cards, remove_cards, shuffle and transfer
\* on a zone, its identifiers are id_start, id_start + 1, ..., one for each
\* card, and num_cards is the number of its cards.
C15_IdentifiersMatch == WellFormed(ZoneNow) /\ WellFormed(TargetNow)

\* the contents of a list
Range(s) == {s[k] : k \in 1..Len(s)}

\* the k-th largest of the integers of a set
NthLargest(S, k) == CHOOSE x \in S : Cardinality({y \in S : y > x}) = k - 1

\* the k-th smallest of the integers of a set
NthSmallest(S, k) == CHOOSE x \in S : Cardinality({y \in S : y < x}) = k - 1

\* the positions of the cards of z that ids does not name
KeptAt(z, ids) == {i \in 1..Len(z.cards) : (z.id_start + i - 1) \notin Range(ids)}

Reversed(s) == [k \in 1..Len(s) |-> s[Len(s) + 1 - k]]

\* C16: remove_cards(ids) raises DominionError when ids is longer than the
\* zone has cards, and leaves the zone as it was; for ids that name cards of
\* the zone it removes exactly these cards, keeps the others in their order,
\* and returns the removed cards by descending identifier, the highest
\* first; so a transfer of a whole zone appends its cards to the target in
\* reversed order.
C16_RemoveDescending ==
    /\ (last.op = "remove_cards" /\ Len(last.id) > Len(ZoneWas.cards))
       => (last.out = "DominionError" /\ ZoneNow = ZoneWas /\ last.card = <<>>)
    /\ (last.op = "remove_cards" /\ WellFormed(ZoneWas) /\ ValidIds(last.id, ZoneWas))
       => /\ last.out = "none"
          /\ last.card = [k \in 1..Len(last.id) |->
                            ZoneWas.cards[NthLargest(Range(last.id), k)
                                          - ZoneWas.id_start + 1]]
          /\ ZoneNow.cards = [k \in 1..Cardinality(KeptAt(ZoneWas, last.id)) |->
                                ZoneWas.cards[NthSmallest(KeptAt(ZoneWas, last.id), k)]]
          /\ WellFormed(ZoneNow)
    /\ (last.op = "transfer_all" /\ WellFormed(ZoneWas))
       => /\ last.out = "none"
          /\ ZoneNow.cards = <<>>
          /\ TargetNow.cards = TargetWas.cards \o Reversed(ZoneWas.cards)

\* the first and the last card of a zone of three removed, given in
\* ascending order, and returned the last first
C16_Witness ==
    /\ last.op = "remove_cards"
    /\ ZoneWas.cards = <<"Copper", "Estate", "Estate">>
    /\ last.id = <<ZoneWas.id_start, ZoneWas.id_start + 2>>
    /\ last.card = <<"Estate", "Copper">>
    /\ ZoneNow.cards = <<"Estate">>

\* C17: transfer(source, target, ids): if remove_cards raises, add_cards does
\* not run and both zones are as they were; if it returns, exactly the cards
\* removed leave the source and are appended to the target.
C17_TransferAtomic ==
    last.op = "transfer"
    => IF last.out # "none"
       THEN ZoneNow = ZoneWas /\ TargetNow = TargetWas
       ELSE /\ TargetNow.cards = TargetWas.cards \o last.card
            /\ Len(last.card) = Len(last.id)
            /\ SameCards(ZoneNow.cards \o last.card, ZoneWas.cards)

(***************************************************************************)
(* Draws of more cards than the player has (SpecDraw, SpecThin)            *)
(***************************************************************************)
\* C18: Player.draw(n) with deck.num_cards + discard_pile.num_cards < n raises
\* DominionError from the check at its start and leaves the player as it
\* was: deck, hand and discard pile hold the same cards in the same order, no
\* card is drawn and the discard pile is not shuffled into the deck.
C18_DrawFailsUntouched ==
    (last.op = "draw"
     /\ pre.players[1].deck.num_cards + pre.players[1].discard_pile.num_cards < last.id)
    => /\ last.out = "DominionError"
       /\ players[1] = pre.players[1]
       /\ pc = "drawn"

\* a failed draw of a player who has cards in the deck and in the discard
\* pile, fewer than asked for
C18_Witness ==
    /\ last.op = "draw"
    /\ last.out = "DominionError"
    /\ pre.players[1].deck.num_cards >= 1
    /\ pre.players[1].discard_pile.num_cards >= 1
    /\ pre.players[1].deck.num_cards + pre.players[1].discard_pile.num_cards < last.id
    /\ players[1].deck.cards = pre.players[1].deck.cards
    /\ players[1].discard_pile.cards = pre.players[1].discard_pile.cards

\* the cards whose effect draws, and nothing before the draw
DrawingCards == {"Smithy", "Village", "Market", "Merchant", "Moat", "Laboratory"}

\* the last step played a card of DrawingCards for a player with fewer cards
\* in deck and discard pile than the card draws
FailedDrawPlay ==
    /\ last.op = "action"
    /\ last.kind = "id"
    /\ last.card \in DrawingCards
    /\ effects(last.card).Ca > Was.deck.num_cards + Was.discard_pile.num_cards

\* the last step was the cleanup of a player owning fewer than five cards
FailedDrawCleanup == last.op = "cleanup" /\ CardsOwned(Was) < 5

\* C19: after a draw that fails for lack of cards, started by the effect of a
\* card of DrawingCards or by cleanup, the game goes on: it has not ended and
\* no error has reached play_game; after the failed play the deck and the
\* discard pile are as they were before it.
C19_FailedDrawRecovers ==
    /\ FailedDrawPlay => /\ pc # "done"
                         /\ result.status = "running"
                         /\ Me.deck = Was.deck
                         /\ Me.discard_pile = Was.discard_pile
    /\ FailedDrawCleanup => (pc # "done" /\ result.status = "running")

\* the cards whose effect is or starts with fixed grants
GrantingCards ==
    {"Market", "Village", "Merchant", "Laboratory", "Festival", "Militia", "Cellar"}

\* the last step answered the action prompt with the identifier of the
\* action card last.card: the card went to the play mat and its effect began
EffectBegan == last.op = "action" /\ last.kind = "id" /\ last.card \in ActionNames

\* the grants of last.card are all in the player's counters and hand, on top
\* of the action spent and the card leaving the hand
GrantsApplied ==
    /\ Me.actions = Was.actions - 1 + effects(last.card).A
    /\ Me.buys = Was.buys + effects(last.card).B
    /\ Me.turn_coins = Was.turn_coins + effects(last.card).C + MerchantCoin
    /\ Me.hand.num_cards = Was.hand.num_cards - 1 + effects(last.card).Ca

\* C20: after any play of Market, Village, Merchant, Laboratory, Festival,
\* Militia or Cellar every fixed grant of the card (+actions, +buys, +coin,
\* +cards) has taken effect.
C20_GrantsUnconditional == (EffectBegan /\ last.card \in GrantingCards) => GrantsApplied

(***************************************************************************)
(* The coins of a player (Spec)                                            *)
(***************************************************************************)
\* C21: at every prompt of Human.buy, where the coins are compared with the
\* cost of the card chosen, the stored coins are turn_coins plus the coin of
\* the Treasure cards now in hand, and the stored hand_coins are that coin:
\* neither is left from before a purchase of the same buy phase or a gain
\* to the hand.
C21_CoinsFresh ==
    pc = "buy" => /\ Me.hand_coins = SumCoin(Me.hand.cards)
                  /\ Me.coins = Me.turn_coins + SumCoin(Me.hand.cards)

\* the buy prompt after a purchase of the same buy phase that cost coins
C21_Witness ==
    /\ pc = "buy"
    /\ Bought
    /\ cost(last.card) > 0
    /\ Me.turn_coins = Was.turn_coins - cost(last.card)
    /\ Me.coins = Was.coins - cost(last.card)

(***************************************************************************)
(* Player.set_coins on its own: a player whose hand_coins and coins were   *)
(* computed for an earlier hand and an earlier turn_coins (as after a play *)
(* or a purchase), a deck and a discard pile of one card, and two calls of *)
(* set_coins in a row.  hist.at_play holds the player before the calls.    *)
(***************************************************************************)
CoinCards == {"Copper", "Silver", "Estate"}

\* the values of turn_coins tried: spent below zero, none, granted
TurnCoins == -1..MaxHeld

InitCoins ==
    \E earlier \in ListsUpTo(CoinCards, MaxHeld),
       hand \in ListsUpTo(CoinCards, MaxHeld),
       spent \in TurnCoins,
       turn_coins \in TurnCoins :
      /\ players = <<[set_coins([reset_points(
                                   PlayerObject(<<"Copper">>, earlier, <<"Estate">>,
                                                <<>>, 1))
                                 EXCEPT !.turn_coins = spent])
                        EXCEPT !.hand = CardContainer(hand, 0),
                               !.turn_coins = turn_coins]>>
      /\ supply = Supply(1)
      /\ pc = "coins"
      /\ Idle(1)

\* one call players[0].set_coins()
SetCoinsOp ==
    /\ pc \in {"coins", "coins_set"}
    /\ players' = <<set_coins(players[1])>>
    /\ pc' = IF pc = "coins" THEN "coins_set" ELSE "coins_twice"
    /\ last' = Last("set_coins", 1, "", 0, "", "")
    /\ pre' = Snapshot
    /\ UNCHANGED <<supply, trash, current_player, other_players, turn, player_num,
                   frame, result, hist>>

SpecCoins == InitCoins /\ [][SetCoinsOp]_vars

\* C22: set_coins leaves hand_coins the coin of the Treasure cards in hand
\* and coins turn_coins plus that, and changes no zone and no other counter;
\* a second call right after the first changes nothing at all.
C22_SetCoinsIdempotent ==
    /\ last.op = "set_coins"
       => /\ Me.hand_coins = SumCoin(Me.hand.cards)
          /\ Me.coins = Me.turn_coins + Me.hand_coins
          /\ Me = [Was EXCEPT !.hand_coins = Me.hand_coins, !.coins = Me.coins]
    /\ pc = "coins_twice" => Me = Was

\* two calls for a player with coin in hand and turn_coins not zero, whose
\* stored coins and hand_coins were both stale
C22_Witness ==
    /\ pc = "coins_twice"
    /\ Me = Was
    /\ Me.hand_coins > 0
    /\ Me.turn_coins # 0
    /\ hist.at_play[1].coins # Me.coins
    /\ hist.at_play[1].hand_coins # Me.hand_coins

(***************************************************************************)
(* Config.__init__ on its own: the game it constructs for one to four      *)
(* players, and the calls of set_current_player.  One player, at any place *)
(* of the shuffled list of players, has the deck shuffled in any of its    *)
(* arrangements; the decks of the others are shuffled into one of Deals.   *)
(***************************************************************************)
\* the answers accepted at "How many human players are playing?"
NumHumans == 1..4

\* arrangements of the starting deck: the three Estates on top, or at the
\* bottom
Deals ==
    {Repeat("Copper", a) \o Repeat("Estate", 3) \o Repeat("Copper", 7 - a)
     : a \in {0, 7}}

\* the players Player.__init__ constructs from the decks of Deals
DealtPlayers ==
    {p \in NewPlayers : p.hand.cards \o p.deck.cards \in Deals}

InitStart ==
    \E n \in NumHumans :
      \E k \in 1..n, any \in NewPlayers, dealt \in [1..n -> DealtPlayers] :
        /\ players = [i \in 1..n |-> IF i = k THEN any ELSE dealt[i]]
        /\ supply = Supply(n)
        /\ pc = "start"
        /\ Idle(n)

\* config.set_current_player(index)
SetCurrentPlayerOp ==
    /\ pc = "start"
    /\ \E index \in 0..(Len(players) - 1) :
         /\ current_player' = set_current_player(players, index).current_player
         /\ other_players' = set_current_player(players, index).other_players
         /\ last' = Last("set_current_player", index + 1, "", index, "", "")
    /\ pre' = Snapshot
    /\ UNCHANGED <<players, supply, trash, turn, player_num, pc, frame, result, hist>>

SpecStart == InitStart /\ [][SetCurrentPlayerOp]_vars

\* a pile holds n cards, all of one type
PileOf(deck, card, n) ==
    /\ deck.num_cards = n
    /\ deck.cards = Repeat(card, n)

\* a player as the game starts: 7 Copper and 3 Estate, 5 of the 10 in hand
\* and 5 in the deck
StartingPlayer(p) ==
    /\ CountOf(p.hand.cards \o p.deck.cards, "Copper") = 7
    /\ CountOf(p.hand.cards \o p.deck.cards, "Estate") = 3
    /\ Len(p.hand.cards) = 5 /\ p.hand.num_cards = 5
    /\ Len(p.deck.cards) = 5 /\ p.deck.num_cards = 5
    /\ p.discard_pile.cards = <<>> /\ p.discard_pile.num_cards = 0
    /\ p.play_mat.cards = <<>> /\ p.play_mat.num_cards = 0

\* the victory piles of a game of n players
VictoryPile(n) == IF n <= 2 THEN 8 ELSE 12

\* C23: the game constructed for p players (1..4): every player owns 7 Copper
\* and 3 Estate, 5 cards in hand and 5 in the deck, discard pile and play mat
\* empty; the Copper pile holds 60 - 7p cards, Silver 40, Gold 30, Estate,
\* Duchy and Province 8 each if p <= 2 and 12 each otherwise; there are 10
\* kingdom piles of 10 cards of one type each; the trash is empty.
C23_GameStart ==
    /\ Len(players) \in NumHumans
    /\ \A i \in 1..Len(players) : StartingPlayer(players[i])
    /\ Len(supply.base_supply.decks) = 6
    /\ PileOf(supply.base_supply.decks[1], "Copper", 60 - 7 * Len(players))
    /\ PileOf(supply.base_supply.decks[2], "Silver", 40)
    /\ PileOf(supply.base_supply.decks[3], "Gold", 30)
    /\ PileOf(supply.base_supply.decks[4], "Estate", VictoryPile(Len(players)))
    /\ PileOf(supply.base_supply.decks[5], "Duchy", VictoryPile(Len(players)))
    /\ PileOf(supply.base_supply.decks[6], "Province", VictoryPile(Len(players)))
    /\ Len(supply.kingdom_supply.decks) = 10
    /\ \A k \in 1..10 :
         /\ supply.kingdom_supply.decks[k].cards[1] \in ActionNames
         /\ PileOf(supply.kingdom_supply.decks[k],
                   supply.kingdom_supply.decks[k].cards[1], 10)
         /\ \A j \in 1..10 :
              j # k => supply.kingdom_supply.decks[j].cards[1]
                       # supply.kingdom_supply.decks[k].cards[1]
    /\ trash.cards = <<>> /\ trash.num_cards = 0

\* a game of three as constructed: 39 Coppers and 12 Provinces in the
\* supply, one player with two Estates in hand and one in the deck
C23_Witness ==
    /\ last.op = ""
    /\ Len(players) = 3
    /\ supply.base_supply.decks[1].num_cards = 39
    /\ supply.base_supply.decks[6].num_cards = 12
    /\ \E i \in 1..3 : /\ CountOf(players[i].hand.cards, "Estate") = 2
                       /\ CountOf(players[i].deck.cards, "Estate") = 1

(***************************************************************************)
(* Turns of the game (Spec)                                                *)
(***************************************************************************)
\* C24: when a turn starts (Human.turn is entered and reaches its first
\* prompt) the player whose turn it is has actions 1, buys 1 and turn_coins
\* 0, and had them when play_game called turn: whatever the earlier turns of
\* that player and of the others did.
C24_TurnStartsReset ==
    last.op = "turn"
    => /\ Was.actions = 1 /\ Was.buys = 1 /\ Was.turn_coins = 0
       /\ Me.actions = 1 /\ Me.buys = 1 /\ Me.turn_coins = 0

\* the start of the second turn of a player whose first turn played
\* Festival (2 buys, 2 coins) and then another card
C24_Witness ==
    /\ last.op = "turn"
    /\ hist.cleanups[current_player] = 1
    /\ hist.at_play[current_player].buys = 2
    /\ hist.at_play[current_player].turn_coins = 2
    /\ Me.buys = 1
    /\ Me.turn_coins = 0

(***************************************************************************)
(* Gains (Spec)                                                            *)
(***************************************************************************)
\* the last step answered the prompt of Human.free_buy
GainAnswer == last.op = "free_buy"

\* the answer was taken: a card was gained
Gained == GainAnswer /\ last.out = "gains"

\* the answer was an integer, a text or a call for help, and no card was
\* gained
GainRejected == GainAnswer /\ last.kind \in {"id", "text", "help"} /\ ~Gained

\* the card named may be gained at the prompt answered: its pile is known
\* and not empty, it is of the type asked for if one is, and costs no more
\* than max_cost
MayGain ==
    /\ last.kind = "id"
    /\ last.card # ""
    /\ pre.piles[last.id + 1] >= 1
    /\ (pre.frame.card_type = "None"
        \/ pre.frame.card_type \in get_parent_classes(last.card))
    /\ cost(last.card) <= pre.frame.max_cost

\* C25: no answer at the prompt of free_buy changes buys or turn_coins.  A
\* card is gained exactly when the identifier names a pile that is not
\* empty, of the type asked for if one is, costing no more than max_cost;
\* the pile then loses one card, which is appended to the destination (the
\* hand or the discard pile), no other pile, player or zone changes but for
\* the card played, which Human.action then moves from the play mat to the
\* discard pile.  A rejected answer leaves players, piles, trash and the
\* prompt as they were.
C25_Gain ==
    /\ GainAnswer => (Me.buys = Was.buys /\ Me.turn_coins = Was.turn_coins)
    /\ (GainAnswer /\ last.kind = "id") => (Gained <=> MayGain)
    /\ Gained
       => /\ PileCounts(supply) = [pre.piles EXCEPT ![last.id + 1] = @ - 1]
          /\ Me.hand.cards = IF pre.frame.destination = "hand"
                             THEN Append(Was.hand.cards, last.card)
                             ELSE Was.hand.cards
          /\ Me.discard_pile.cards
               = IF pre.frame.destination = "hand"
                 THEN Append(Was.discard_pile.cards, pre.frame.card)
                 ELSE Was.discard_pile.cards \o <<last.card, pre.frame.card>>
          /\ Me.play_mat.cards \o <<pre.frame.card>> = Was.play_mat.cards
          /\ Me.deck = Was.deck
          /\ trash.num_cards = pre.trash
          /\ \A i \in 1..Len(players) : i # current_player => players[i] = pre.players[i]
    /\ GainRejected
       => /\ players = pre.players
          /\ PileCounts(supply) = pre.piles
          /\ trash.num_cards = pre.trash
          /\ pc = "gain"
          /\ frame = pre.frame

\* Mine gained a Silver to the hand
C25_Witness ==
    /\ Gained
    /\ pre.frame.card = "Mine"
    /\ last.card = "Silver"
    /\ Me.hand.cards = Append(Was.hand.cards, "Silver")
    /\ Me.discard_pile.cards = Append(Was.discard_pile.cards, "Mine")

(***************************************************************************)
(* A pass at Militia's discard prompt (Spec)                               *)
(***************************************************************************)
\* the last step was the answer pass of a player attacked by Militia
MilitiaPass == last.op = "discard" /\ pre.frame.card = "Militia" /\ last.kind = "pass"

C27_ScoredOnceAtEnd ==
    /\ [](last.op = "end_game"
          => /\ pc = "done"
             /\ pre.pc = "scoring"
             /\ check_end_game(supply)
             /\ \A i \in 1..Len(players) :
                  /\ pre.players[i].victory_points = 0
                  /\ players[i].victory_points = VictoryOf(CardsOf(pre.players[i])))
    /\ [](last.op # "end_game"
          => \A i \in 1..Len(players) : players[i].victory_points = 0)
    /\ [][pc' = "scoring" => (last'.op = "check_end_game" /\ check_end_game(supply'))]_vars
    /\ [][pc # "done"]_vars

\* a game ended by the last Province and scored: the player has points
C27_Witness ==
    /\ last.op = "end_game"
    /\ result.status = "ended"
    /\ supply.base_supply.decks[6].num_cards = 0
    /\ Me.victory_points > 0
    /\ Me.victory_points = VictoryOf(Me.deck.cards)

(***************************************************************************)
(* The cards of the game (Spec)                                            *)
(***************************************************************************)
\* the places of a list that hold a card
Holding(s, card) == Cardinality({k \in 1..Len(s) : s[k] = card})

\* the sum of f over 1..n
RECURSIVE SumOver(_, _)
SumOver(f, n) == IF n = 0 THEN 0 ELSE f[n] + SumOver(f, n - 1)

\* the cards the players hold and the cards in the trash
RECURSIVE Held(_)
Held(ps) == IF ps = <<>> THEN trash.cards ELSE CardsOf(Head(ps)) \o Held(Tail(ps))

\* every pile holds cards of its own type only
PilesPure ==
    \A k \in 1..Len(all_decks(supply)) :
       all_decks(supply)[k].cards
         = Repeat(supply_refs(supply)[k], Len(all_decks(supply)[k].cards))

\* the cards of a type that left the piles since they held the counts start
OutOfPiles(start, card) ==
    SumOver([k \in 1..Len(start) |->
               IF supply_refs(supply)[k] = card
               THEN start[k] - Len(all_decks(supply)[k].cards) ELSE 0],
            Len(start))

\* of every type, the cards held by the players or in the trash (held) are
\* the starting cards of the players and the cards that left the piles
Conserved(start, held) ==
    \A card \in CardNames :
       Holding(held, card)
         = Len(players) * Holding(StartingDeck, card) + OutOfPiles(start, card)

\* the count of every zone is the number of its cards
Counted ==
    /\ \A k \in 1..Len(all_decks(supply)) :
         all_decks(supply)[k].num_cards = Len(all_decks(supply)[k].cards)
    /\ \A i \in 1..Len(players) :
         /\ players[i].deck.num_cards = Len(players[i].deck.cards)
         /\ players[i].hand.num_cards = Len(players[i].hand.cards)
         /\ players[i].discard_pile.num_cards = Len(players[i].discard_pile.cards)
         /\ players[i].play_mat.num_cards = Len(players[i].play_mat.cards)
    /\ trash.num_cards = Len(trash.cards)

\* C28: in every state of the game, for every type of card, the cards of
\* that type in the supply piles, in the deck, hand, discard pile and play
\* mat of every player and in the trash are as many as when the game
\* started: no step makes or loses a card; and every zone's num_cards is the
\* number of cards it holds.
C28_CardsConserved ==
    /\ PilesPure
    /\ Conserved(PileCounts(Supply(Len(players))), Held(players))
    /\ Counted

\* a turn in which Mine trashed a Copper and gained a Silver has ended, and
\* the hand was drawn again
C28_Witness ==
    /\ last.op = "cleanup"
    /\ pc = "loop"
    /\ trash.cards = <<"Copper">>
    /\ Holding(CardsOf(Me), "Copper") = 6
    /\ Len(supply.base_supply.decks[2].cards) + Holding(CardsOf(Me), "Silver") = 40
    /\ InList("Mine", Me.discard_pile.cards)

(***************************************************************************)
(* The cards played in a turn (SpecThin)                                   *)
(***************************************************************************)
\* the program waits at a prompt of the turn of the current player, or is
\* about to run the cleanup
InTurn == pc \in {"action", "discard", "trash", "gain", "buy", "cleanup"}

\* C29: the cards played in a turn stay on the play mat until cleanup: at
\* every prompt of the turn and up to the cleanup the play mat holds as many
\* cards as were played since the last cleanup, so none of them is in the
\* discard pile, where a draw could shuffle it into the deck.
C29_PlayedStaysOnMat == InTurn => Len(Me.play_mat.cards) = hist.plays

\* the action cards among the cards of a player
ActionCardsOwned(p) ==
    Cardinality({k \in 1..Len(CardsOf(p)) : CardsOf(p)[k] \in ActionNames})

\* C30: the cards played in one turn are never more than the action cards
\* the player owns, so an action phase in which the player plays a card
\* whenever one is in hand ends after that many plays at most.
C30_PlaysBounded == InTurn => hist.plays <= ActionCardsOwned(Me)

(***************************************************************************)
(* A pass inside a card effect (SpecThin)                                  *)
(***************************************************************************)
\* the last step was a pass at a prompt of the effect of a card played: the
\* discard of Cellar, the trash or the gain of Mine and Remodel, the gain of
\* Workshop
NestedPass ==
    /\ last.kind = "pass"
    /\ last.op \in {"discard", "trash", "free_buy"}
    /\ pre.frame.card \in {"Cellar", "Mine", "Remodel", "Workshop"}

\* C31: a pass at a prompt inside a card effect ends that effect only: the
\* actions of the player are what they were before the pass, the card played
\* has left the play mat for the discard pile, and the program asks for the
\* next action if actions are left, and goes on to the buy phase if not.
C31_NestedPassEndsEffect ==
    (NestedPass /\ result.status = "running")
    => /\ Me.actions = Was.actions
       /\ Me.play_mat.cards = <<>>
       /\ InList(pre.frame.card, Me.discard_pile.cards)
       /\ IF Me.actions > 0 THEN pc = "action" ELSE pc \in {"buy", "cleanup"}

(***************************************************************************)
(* Game.end_game with equal points (SpecRank)                              *)
(***************************************************************************)
\* C32: Game.end_game returns normally whatever the points of the players,
\* equal points included, and gives every player a place: the players ranked
\* are all the players, each once, with one place each.
C32_EndGameCompletes ==
    last.op = "end_game"
    => /\ result.status = "ended"
       /\ Len(result.end_game_players) = Len(players)
       /\ \A i \in 1..Len(players) : InList(i, result.end_game_players)
       /\ Len(result.places) = Len(players)
       /\ \A k \in 1..Len(players) : result.places[k] \in 1..Len(players)

(***************************************************************************)
(* Cellar (SpecThin)                                                       *)
(***************************************************************************)
\* the last step ended the effect of a Cellar: the player passed at its
\* discard prompt or discarded the last card of the hand, or played the
\* Cellar with no other card in hand
CellarEnded ==
    /\ \/ last.op = "discard" /\ pre.frame.card = "Cellar" /\ last.kind \in {"pass", "id"}
       \/ last.op = "action" /\ last.card = "Cellar"
    /\ pc # "discard"

\* the cards discarded by the Cellar that has just ended
CellarDiscards ==
    IF last.op = "action" THEN 0
    ELSE IF last.kind = "pass" THEN pre.frame.num_discards
    ELSE pre.frame.num_discards + 1

\* the player as the Cellar was played, the Cellar still in hand
AtPlay == hist.at_play[current_player]

\* C33: whatever number of cards the player discards to Cellar before
\* passing, from none to the whole hand, the draw of as many cards does not
\* fail; when the effect ends the hand holds as many cards as before the
\* first discard (the hand Cellar was played from, less the Cellar) and the
\* play has added exactly 1 to the actions left after the action spent.
C33_CellarRedraws ==
    CellarEnded
    => /\ result.status = "running"
       /\ CellarDiscards \in 0..(AtPlay.hand.num_cards - 1)
       /\ Me.hand.num_cards = AtPlay.hand.num_cards - 1
       /\ Len(Me.hand.cards) = Len(AtPlay.hand.cards) - 1
       /\ Me.actions = (AtPlay.actions - 1) + 1
       /\ CardsOwned(Me) = CardsOwned(AtPlay)

\* the player discarded the whole hand, four cards, to Cellar and drew four
\* cards from the discard pile shuffled into the empty deck
C33_Witness ==
    /\ CellarEnded
    /\ CellarDiscards = 4
    /\ AtPlay.deck.num_cards = 0
    /\ Me.hand.num_cards = 4
    /\ Me.deck.num_cards = 0
    /\ Me.discard_pile.cards = <<"Cellar">>

(***************************************************************************)
(* Mine and Remodel (Spec)                                                 *)
(***************************************************************************)
\* the card trashed last
Trashed == trash.cards[Len(trash.cards)]

\* what Mine and Remodel add to the cost of the card trashed
Upgrade(card) == IF card = "Mine" THEN 3 ELSE 2

\* the program waits at the gain prompt of a Mine or a Remodel
UpgradePrompt == pc = "gain" /\ frame.card \in {"Mine", "Remodel"}

\* the last step trashed a card of the hand of the current player at the
\* trash prompt of the card played
TrashedFromHand ==
    /\ last.op = "trash"
    /\ last.out = "trashes"
    /\ pre.pc = "trash"
    /\ pre.frame.card = frame.card
    /\ last.card = Trashed
    /\ last.card = Was.hand.cards[last.id + 1]
    /\ trash.num_cards = pre.trash + 1
    /\ Me.hand.cards = DropAt(Was.hand.cards, last.id)
    /\ Me.play_mat.cards = <<frame.card>>

\* the last step was a rejected answer at the same gain prompt, which
\* changed nothing
AskedAgain ==
    /\ last.op = "free_buy"
    /\ pre.pc = "gain"
    /\ pre.frame = frame
    /\ trash.num_cards = pre.trash
    /\ players = pre.players

\* C34: Mine and Remodel ask for the card to gain only after a card of the
\* player's hand was trashed in the same effect, and until the gain nothing
\* else is trashed; the card gained costs at most the cost of the card
\* trashed + 3 (Mine) or + 2 (Remodel); Mine trashes a Treasure only and
\* gains a Treasure only, appended to the hand; Remodel's gain is appended
\* to the discard pile.
C34_TrashThenGain ==
    /\ UpgradePrompt
       => /\ TrashedFromHand \/ AskedAgain
          /\ trash.num_cards >= 1
          /\ frame.card = "Mine" => "Treasure" \in get_parent_classes(Trashed)
    /\ (Gained /\ pre.frame.card \in {"Mine", "Remodel"})
       => /\ pre.pc = "gain"
          /\ trash.num_cards = pre.trash
          /\ trash.num_cards >= 1
          /\ cost(last.card) <= cost(Trashed) + Upgrade(pre.frame.card)
          /\ IF pre.frame.card = "Mine"
             THEN /\ "Treasure" \in get_parent_classes(Trashed)
                  /\ "Treasure" \in get_parent_classes(last.card)
                  /\ Me.hand.cards = Append(Was.hand.cards, last.card)
                  /\ Me.discard_pile.cards = Append(Was.discard_pile.cards, "Mine")
             ELSE /\ Me.hand.cards = Was.hand.cards
                  /\ Me.discard_pile.cards
                       = Was.discard_pile.cards \o <<last.card, "Remodel">>

\* Remodel trashed a Copper and gained a card costing 2 to the discard pile
C34_Witness ==
    /\ Gained
    /\ pre.frame.card = "Remodel"
    /\ trash.cards = <<"Copper">>
    /\ cost(last.card) = 2
    /\ Me.discard_pile.cards = <<last.card, "Remodel">>

(***************************************************************************)
(* Merchant (SpecThin)                                                     *)
(***************************************************************************)
\* the last step answered the action prompt with the identifier of a
\* Merchant in hand
MerchantPlayed == last.op = "action" /\ last.kind = "id" /\ last.card = "Merchant"

\* C35: every play of Merchant draws one card and adds 1 to the actions left
\* after the action spent; it adds 1 to turn_coins if the hand then holds at
\* least one Silver, however many, and whether or not an earlier Merchant
\* of the turn added its coin, and adds nothing to turn_coins otherwise.
C35_MerchantBonus ==
    MerchantPlayed
    => /\ Me.hand.num_cards = Was.hand.num_cards - 1 + 1
       /\ Me.actions = Was.actions - 1 + 1
       /\ Me.turn_coins = Was.turn_coins
                            + (IF InList("Silver", Me.hand.cards) THEN 1 ELSE 0)

(***************************************************************************)
(* The players who do not hold the turn (Spec)                             *)
(***************************************************************************)
\* the last step belongs to a turn: the start of the turn, an answer at one
\* of its prompts, or its cleanup
TurnStep == last.op \in {"turn", "action", "discard", "trash", "free_buy", "buy", "cleanup"}

\* the last step moved the card named from the hand of player q to the end
\* of q's own discard pile, at a discard prompt of Militia
MilitiaDiscard(q) ==
    /\ last.op = "discard"
    /\ last.kind = "id"
    /\ last.out = "discards"
    /\ last.player = q
    /\ pre.frame.card = "Militia"
    /\ other_players[pre.frame.victim] = q
    /\ last.card = pre.players[q].hand.cards[last.id + 1]
    /\ players[q].hand.cards = DropAt(pre.players[q].hand.cards, last.id)
    /\ players[q].discard_pile.cards = Append(pre.players[q].discard_pile.cards, last.card)

\* C36: a step of the turn of player P changes nothing of another player Q
\* but Q's hand and discard pile, and those only by a discard of Q at a
\* prompt of P's Militia, which moves one card from Q's hand to Q's own
\* discard pile: Q's deck, play mat, actions, buys, turn_coins and
\* victory_points stay as they are, the cards Q holds are the same cards, so
\* none moved to P or to the trash; and P is never asked to discard to P's
\* own Militia.
C36_OthersUntouched ==
    /\ TurnStep
       => \A q \in 1..Len(players) :
            q # current_player
            => /\ [players[q] EXCEPT !.hand = 0, !.discard_pile = 0]
                    = [pre.players[q] EXCEPT !.hand = 0, !.discard_pile = 0]
               /\ \/ /\ players[q].hand = pre.players[q].hand
                     /\ players[q].discard_pile = pre.players[q].discard_pile
                  \/ /\ MilitiaDiscard(q)
                     /\ trash.num_cards = pre.trash
                     /\ CardsOwned(Me) = CardsOwned(Was)
    /\ (pc = "discard" /\ frame.card = "Militia")
       => /\ frame.victim \in 1..Len(other_players)
          /\ other_players[frame.victim] # current_player
    /\ \A k \in 1..Len(other_players) : other_players[k] # current_player

\* in the turn of player 1, player 2 discarded the second card to Militia
\* and holds three cards
C36_Witness ==
    /\ Len(players) = 2
    /\ current_player = 1
    /\ MilitiaDiscard(2)
    /\ players[2].hand.num_cards = 3
    /\ players[2].discard_pile.num_cards = 2
    /\ pc # "discard"

(***************************************************************************)
(* The shared context (SpecStart)                                          *)
(***************************************************************************)
\* the positions 1..n but for holder, in ascending order
RECURSIVE Without(_, _)
Without(n, holder) ==
    IF n = 0 THEN <<>>
    ELSE IF n = holder THEN Without(n - 1, holder)
    ELSE Append(Without(n - 1, holder), n)

\* the context is that of the turn of holder: current_player is holder and
\* other_players are the players in the order of the players list, holder
\* left out
ContextOf(holder) ==
    /\ holder \in 1..Len(players)
    /\ current_player = holder
    /\ other_players = Without(Len(players), holder)

\* C37: set_current_player(index) leaves current_player the player at index
\* and other_players the players list without that player, in the order of
\* the list, and does not change the players list; play_game calls it at
\* the start of every turn with the position of the turn holder, so that at
\* every prompt of a turn the context is that of the turn holder, and the
\* list of players has the length it had.
C37_ContextRebuilt ==
    /\ last.op = "set_current_player"
       => /\ ContextOf(last.id + 1)
          /\ players = pre.players
    /\ last.op \in {"turn", "check_end_game"}
       => /\ ContextOf(player_num + 1)
          /\ last.player = player_num + 1
          /\ Len(players) = Len(pre.players)
          /\ \A i \in 1..Len(players) :
               players[i].turns = pre.players[i].turns
                                  + (IF last.op = "turn" /\ i = player_num + 1
                                     THEN 1 ELSE 0)
    /\ InTurn => (ContextOf(player_num + 1) /\ Len(players) = Len(pre.players))

\* of four players the second is made the current player: the others are
\* the first, the third and the fourth
C37_Witness ==
    /\ last.op = "set_current_player"
    /\ Len(players) = 4
    /\ current_player = 2
    /\ other_players = <<1, 3, 4>>
    /\ players = pre.players

(***************************************************************************)
(* The piles of the supply (Spec)                                          *)
(***************************************************************************)
\* the last step took one card from one pile and left the others alone
OneCardTaken ==
    \E k \in 1..Len(pre.piles) :
       PileCounts(supply) = [pre.piles EXCEPT ![k] = @ - 1]

\* C38: no step of a game adds a card to a pile of the supply: a step leaves
\* every pile as it was, or is a buy or a gain that takes one card from one
\* pile; so once the end-of-game condition holds it holds in every later
\* state.
C38_PilesOnlyShrink ==
    /\ [](/\ Len(PileCounts(supply)) = Len(pre.piles)
          /\ \A k \in 1..Len(pre.piles) : PileCounts(supply)[k] <= pre.piles[k]
          /\ PileCounts(supply) # pre.piles
             => /\ OneCardTaken
                /\ \/ last.op = "buy" /\ last.out = "buys"
                   \/ last.op = "free_buy" /\ last.out = "gains")
    /\ [][\A k \in 1..Len(PileCounts(supply)) :
            PileCounts(supply')[k] <= PileCounts(supply)[k]]_vars
    /\ [][check_end_game(supply) => check_end_game(supply')]_vars

\* a card was bought after the last Province had gone: the end-of-game
\* condition held before the purchase and holds after it
C38_Witness ==
    /\ last.op = "buy"
    /\ last.out = "buys"
    /\ pre.piles[6] = 0
    /\ OneCardTaken
    /\ check_end_game(supply)
    /\ pc \in {"buy", "cleanup"}

(***************************************************************************)
(* The order of the turns (Spec)                                           *)
(***************************************************************************)
\* the turns started by the player at position i, now and before the last step
Turns(i) == players[i].turns
TurnsWere(i) == pre.players[i].turns

\* C39: the turns are taken round-robin in the order of the players list: in
\* every state a player has started as many turns as any player later in
\* the list, or one more; a turn starts for the first player of the list
\* among those with the fewest turns, and adds exactly 1 to the turns of
\* that player and nothing to the turns of the others; no other step
\* changes a turn counter.
C39_RoundRobin ==
    /\ \A i, j \in 1..Len(players) : i < j => Turns(i) - Turns(j) \in {0, 1}
    /\ last.op = "turn"
       => /\ last.player = current_player
          /\ \A i \in 1..Len(players) :
               /\ Turns(i) = TurnsWere(i) + (IF i = current_player THEN 1 ELSE 0)
               /\ i < current_player => TurnsWere(i) = TurnsWere(current_player) + 1
               /\ i > current_player => TurnsWere(i) = TurnsWere(current_player)
    /\ last.op # "turn" => \A i \in 1..Len(players) : Turns(i) = TurnsWere(i)

\* the second of two players starts a turn after the first has taken one
C39_Witness ==
    /\ last.op = "turn"
    /\ Len(players) = 2
    /\ current_player = 2
    /\ TurnsWere(1) = RoundsPlayed + 1
    /\ TurnsWere(2) = RoundsPlayed
    /\ Turns(2) = RoundsPlayed + 1

(***************************************************************************)
(* A solo game late in play whose player owns five cards, all in hand, and *)
(* has trashed the starting cards, seven Provinces and the ten Markets.    *)
(* The first state stands before the last turn explored.                   *)
(***************************************************************************)
\* the cards trashed so far
LastTrash == ThinTrash \o Repeat("Market", 10)

\* the zones of the player
LastZones == Zones(<<>>, <<"Festival", "Festival", "Gold", "Laboratory", "Remodel">>, <<>>)

InitLast ==
    /\ Legal(Supply(1), <<Zones(LastTrash, LastZones.hand, <<>>)>>)
    /\ players = <<[PlayerBetweenTurns(LastZones)
                      EXCEPT !.turns = RoundsPlayed + MaxTurnsStarted - 1]>>
    /\ supply = SupplyLeft(Supply(1), <<Zones(LastTrash, LastZones.hand, <<>>)>>)
    /\ trash = CardContainer(LastTrash, 0)
    /\ current_player = 1
    /\ other_players = set_current_player(players, 0).other_players
    /\ turn = RoundsPlayed + MaxTurnsStarted
    /\ player_num = 0
    /\ pc = "loop"
    /\ frame = NoFrame
    /\ result = Running
    /\ last = Last("", 0, "", 0, "", "")
    /\ pre = Snapshot
    /\ hist = [at_play |-> players, plays |-> 0, cleanups |-> <<0>>]

\* an answer at the prompt of Human.action, in turns of MaxPlays plays at most
LastActionAnswer == ActionAnswer /\ hist'.plays <= MaxPlays

\* the cleanup of a player owning MaxOwned cards at most: the shuffles of a
\* larger discard pile are not explored
LastCleanup == CardsOwned(players[current_player]) <= MaxOwned /\ Cleanup

NextLast ==
    \/ StartTurn
    \/ LastActionAnswer
    \/ DiscardAnswer
    \/ TrashAnswer
    \/ FreeBuyAnswer
    \/ BuyAnswer
    \/ LastCleanup
    \/ EndGame

SpecLast == InitLast /\ [][NextLast]_vars

\* C40: in every state, of every player, actions and buys are not negative
\* and turn_coins plus the coin of the Treasures in hand is not negative
\* (turn_coins alone may be, after a purchase paid with Treasures in hand).
C40_NoNegativeResource ==
    \A i \in 1..Len(players) :
       /\ players[i].actions >= 0
       /\ players[i].buys >= 0
       /\ players[i].turn_coins + SumCoin(players[i].hand.cards) >= 0
====
